---- MODULE Spec2Model ----
(***************************************************************************)
(* Model of github.com/tfkhsr/jsonschema: Parse (a JSON Schema document    *)
(* to an Index of Schemas keyed by JSON pointer), resolveRefToSchema,      *)
(* Schema.NewInstance and the Go generator of package golang.              *)
(*                                                                         *)
(* A Go string is a sequence of one-character strings, so that pointer     *)
(* concatenation, strings.Split, strings.Replace and the naming functions  *)
(* are computed as the code computes them.  A Go map is a function; the    *)
(* order of a `range` over a map is not defined by Go, so every operation  *)
(* that ranges over a map yields the SET of the runs the orders allow.     *)
(***************************************************************************)
EXTENDS Integers, Sequences, FiniteSets, TLC

VARIABLES
    doc,    \* the input bytes of Parse, as the JSON value they spell
    parsed, \* what Parse returned: [ret, hasIdx, err]
    idx,    \* the Index Parse returned (the empty map when it returned none)
    op      \* the last call made on the Index and what it returned

vars == <<doc, parsed, idx, op>>

(***************************************************************************)
(* Bounds of the model.                                                    *)
(***************************************************************************)
\* largest number of entries of the root's definitions map
MaxKeys == 2
\* call depth at which a recursion of NewInstance exhausts the Go stack
StackDepth == 8
\* largest number of structs, slices and slice elements held by a value given
\* to Validate()
MaxValues == 2
\* largest number of characters of the name of a definition whose Name is
\* looked at
MaxLen == 3

(***************************************************************************)
(* Strings.                                                                *)
(***************************************************************************)
Lower == <<"a","b","c","d","e","f","g","h","i","j","k","l","m",
           "n","o","p","q","r","s","t","u","v","w","x","y","z">>
Upper == <<"A","B","C","D","E","F","G","H","I","J","K","L","M",
           "N","O","P","Q","R","S","T","U","V","W","X","Y","Z">>
Digits == {"0","1","2","3","4","5","6","7","8","9"}

IsLower(c) == \E i \in DOMAIN Lower : Lower[i] = c
IsUpper(c) == \E i \in DOMAIN Upper : Upper[i] = c
ToUpper(c) == IF IsLower(c) THEN Upper[CHOOSE i \in DOMAIN Lower : Lower[i] = c] ELSE c

EmptyString == << >>
Hash == <<"#">>
Slash == "/"
SlashDefinitions == <<"/","d","e","f","i","n","i","t","i","o","n","s","/">>
SlashProperties == <<"/","p","r","o","p","e","r","t","i","e","s","/">>
SlashItems == <<"/","i","t","e","m","s">>
HashSlashDefinitions == Hash \o SlashDefinitions

\* does t occur in s at position i
OccursAt(s, t, i) == i + Len(t) - 1 =< Len(s) /\ SubSeq(s, i, i + Len(t) - 1) = t

\* strings.Replace(s, old, new, 1) for a non-empty old: the first occurrence only
ReplaceFirst(s, old, new) ==
    LET at == {i \in 1..Len(s) : OccursAt(s, old, i)}
    IN  IF at = {} THEN s
        ELSE LET i == CHOOSE j \in at : \A k \in at : j =< k
             IN  SubSeq(s, 1, i - 1) \o new \o SubSeq(s, i + Len(old), Len(s))

\* the last element of strings.Split(s, "/")
LastSegment(s) ==
    LET at == {i \in 1..Len(s) : s[i] = Slash}
    IN  IF at = {} THEN s
        ELSE LET i == CHOOSE j \in at : \A k \in at : k =< j
             IN  SubSeq(s, i + 1, Len(s))

\* regexp.MustCompile("{|}|-|_").ReplaceAllString(p, "")
RECURSIVE StripChars(_)
StripChars(p) ==
    IF p = << >> THEN << >>
    ELSE IF Head(p) \in {"{", "}", "-", "_"} THEN StripChars(Tail(p))
    ELSE <<Head(p)>> \o StripChars(Tail(p))

\* the word separators of strings.Title: letters, digits and the underscore
\* continue a word, every other ASCII character ends it
IsSeparator(c) == ~(IsLower(c) \/ IsUpper(c) \/ c \in Digits \/ c = "_")

\* strings.Title(c): the first letter of every word upper-cased, the rest kept
Title(c) ==
    [i \in 1..Len(c) |->
        IF i = 1 \/ IsSeparator(c[i - 1]) THEN ToUpper(c[i]) ELSE c[i]]

S_id == <<"i","d">>
S_url == <<"u","r","l">>
S_api == <<"a","p","i">>

ToLower(c) == IF IsUpper(c) THEN Lower[CHOOSE i \in DOMAIN Upper : Upper[i] = c] ELSE c

\* the abbreviations matched in any case, every other name capitalized
nameFromStrings_anyCase(p) ==
    LET c == StripChars(p)
        low == [i \in 1..Len(c) |-> ToLower(c[i])]
    IN  IF low = S_id THEN <<"I","D">>
        ELSE IF low = S_url THEN <<"U","R","L">>
        ELSE IF low = S_api THEN <<"A","P","I">>
        ELSE [i \in 1..Len(c) |-> IF i = 1 THEN ToUpper(c[i]) ELSE ToLower(c[i])]

\* nameFromStrings for the one part nameFromPointer passes
nameFromStrings(p) ==
    LET c == StripChars(p)
    IN  IF c = S_id THEN <<"I","D">>
        ELSE IF c = S_url THEN <<"U","R","L">>
        ELSE IF c = S_api THEN <<"A","P","I">>
        ELSE Title(c)

nameFromPointer(pointer) == nameFromStrings(LastSegment(pointer))

jsonNameFromPointer(pointer) == LastSegment(pointer)

(***************************************************************************)
(* The kinds of a schema (Schema.Type).                                    *)
(***************************************************************************)
K_none == << >>
K_ref == <<"r","e","f">>
K_object == <<"o","b","j","e","c","t">>
K_array == <<"a","r","r","a","y">>
K_string == <<"s","t","r","i","n","g">>
K_integer == <<"i","n","t","e","g","e","r">>
K_number == <<"n","u","m","b","e","r">>
K_boolean == <<"b","o","o","l","e","a","n">>
K_null == <<"n","u","l","l">>

(***************************************************************************)
(* JSON values, as far as the decoder of Schema tells them apart: an       *)
(* object with the fields of Schema, null, a value of another JSON type    *)
(* (a number where an object is expected), and bytes that are no JSON.     *)
(***************************************************************************)
JInvalid == [j |-> "invalid"]
JNull == [j |-> "null"]
JNumber == [j |-> "number"]
JAbsent == [j |-> "absent"]
JObject(type, ref, definitions, properties, items, required) ==
    [j |-> "object", type |-> type, ref |-> ref, definitions |-> definitions,
     properties |-> properties, items |-> items, required |-> required]

\* a nil *Schema
NilSchema == [nil |-> TRUE]

\* the zero value of Schema (Title and Description are read by no code)
ZeroSchema ==
    [nil |-> FALSE, Type |-> K_none, Ref |-> EmptyString,
     Definitions |-> << >>, Properties |-> << >>, Items |-> NilSchema,
     Required |-> << >>, Pointer |-> EmptyString, PointerName |-> EmptyString,
     Name |-> EmptyString, JSONName |-> EmptyString]

\* json.Unmarshal reports a value of the wrong JSON type anywhere in the document
RECURSIVE HasTypeError(_)
HasTypeError(v) ==
    \/ v.j = "number"
    \/ /\ v.j = "object"
       /\ \/ \E n \in DOMAIN v.definitions : HasTypeError(v.definitions[n])
          \/ \E n \in DOMAIN v.properties : HasTypeError(v.properties[n])
          \/ HasTypeError(v.items)

\* the *Schema json.Unmarshal builds for a value: nil for null (and for an
\* absent items), a fresh Schema for an object
RECURSIVE decode(_)
decode(v) ==
    IF v.j = "object"
    THEN [ZeroSchema EXCEPT
            !.Type = v.type,
            !.Ref = v.ref,
            !.Definitions = [n \in DOMAIN v.definitions |-> decode(v.definitions[n])],
            !.Properties = [n \in DOMAIN v.properties |-> decode(v.properties[n])],
            !.Items = decode(v.items),
            !.Required = v.required]
    ELSE NilSchema

\* var s Schema; err := json.Unmarshal(b, &s): a JSON null leaves s untouched
Unmarshal(b) ==
    IF b.j = "invalid" \/ HasTypeError(b) THEN [err |-> TRUE, s |-> ZeroSchema]
    ELSE IF b.j = "object" THEN [err |-> FALSE, s |-> decode(b)]
    ELSE [err |-> FALSE, s |-> ZeroSchema]

(***************************************************************************)
(* Schema.parse.  A run of parse is [s, ins, panic]: the node as the call  *)
(* leaves it (parse writes to the node and to its children), the           *)
(* insertions into the Index in the order made, and whether the call       *)
(* ended in a nil dereference.                                             *)
(***************************************************************************)
\* lines 110-117: the fields parse sets on a node that is not the root
indexFields_keepsType(s, pointer) ==
    [s EXCEPT
        !.Pointer = pointer,
        !.PointerName = ReplaceFirst(pointer, HashSlashDefinitions, EmptyString),
        !.Name = nameFromPointer(pointer),
        !.JSONName = jsonNameFromPointer(pointer)]

indexFields_pointerName(s, pointer) ==
    [s EXCEPT
        !.Type = IF s.Ref # EmptyString THEN K_ref ELSE s.Type,
        !.Pointer = ReplaceFirst(pointer, HashSlashDefinitions, EmptyString),
        !.PointerName = ReplaceFirst(pointer, HashSlashDefinitions, EmptyString),
        !.Name = nameFromPointer(pointer),
        !.JSONName = jsonNameFromPointer(pointer)]

indexFields(s, pointer) ==
    [s EXCEPT
        !.Type = IF s.Ref # EmptyString THEN K_ref ELSE s.Type,
        !.Pointer = pointer,
        !.PointerName = ReplaceFirst(pointer, HashSlashDefinitions, EmptyString),
        !.Name = nameFromPointer(pointer),
        !.JSONName = jsonNameFromPointer(pointer)]

RECURSIVE parse(_, _), parseRange(_, _, _, _)

\* for name, sch := range m { sch.parse(idx, prefix+name) }, in any order:
\* acc is the run so far, todo the names not yet visited
parseRange(m, prefix, todo, acc) ==
    IF todo = {} \/ acc.panic THEN {acc}
    ELSE UNION { UNION {
            parseRange(m, prefix, todo \ {name},
                       [s |-> [acc.s EXCEPT ![name] = r.s],
                        ins |-> acc.ins \o r.ins,
                        panic |-> r.panic])
            : r \in parse(m[name], prefix \o name) }
         : name \in todo }

\* the node put into the Index before its children are visited
parse_nodeFirst(s, pointer) ==
    IF s.nil THEN {[s |-> s, ins |-> << >>, panic |-> TRUE]}
    ELSE
    LET start(m) == [s |-> m, ins |-> << >>, panic |-> FALSE]
        defs == parseRange(s.Definitions, pointer \o SlashDefinitions,
                           DOMAIN s.Definitions, start(s.Definitions))
        props == parseRange(s.Properties, pointer \o SlashProperties,
                            DOMAIN s.Properties, start(s.Properties))
        items == IF s.Items.nil THEN {start(s.Items)}
                 ELSE parse(s.Items, pointer \o SlashItems)
        end(d, p, i) ==
            LET t == [s EXCEPT !.Definitions = d.s, !.Properties = p.s, !.Items = i.s]
                ins == d.ins \o p.ins \o i.ins
            IN  IF pointer = Hash
                THEN [s |-> t, ins |-> ins, panic |-> FALSE]
                ELSE LET u == indexFields(t, pointer)
                     IN  [s |-> u,
                          ins |-> <<[key |-> pointer, s |-> u]>> \o ins,
                          panic |-> FALSE]
    IN  UNION { IF d.panic THEN {[s |-> s, ins |-> d.ins, panic |-> TRUE]}
                ELSE UNION { IF p.panic
                             THEN {[s |-> s, ins |-> d.ins \o p.ins, panic |-> TRUE]}
                             ELSE { IF i.panic
                                    THEN [s |-> s, ins |-> d.ins \o p.ins \o i.ins,
                                          panic |-> TRUE]
                                    ELSE end(d, p, i) : i \in items }
                             : p \in props }
                : d \in defs }

parse(s, pointer) ==
    IF s.nil THEN {[s |-> s, ins |-> << >>, panic |-> TRUE]}
    ELSE
    LET start(m) == [s |-> m, ins |-> << >>, panic |-> FALSE]
        defs == parseRange(s.Definitions, pointer \o SlashDefinitions,
                           DOMAIN s.Definitions, start(s.Definitions))
        props == parseRange(s.Properties, pointer \o SlashProperties,
                            DOMAIN s.Properties, start(s.Properties))
        items == IF s.Items.nil THEN {start(s.Items)}
                 ELSE parse(s.Items, pointer \o SlashItems)
        end(d, p, i) ==
            LET t == [s EXCEPT !.Definitions = d.s, !.Properties = p.s, !.Items = i.s]
                ins == d.ins \o p.ins \o i.ins
            IN  IF pointer = Hash
                THEN [s |-> t, ins |-> ins, panic |-> FALSE]
                ELSE LET u == indexFields(t, pointer)
                     IN  [s |-> u,
                          ins |-> Append(ins, [key |-> pointer, s |-> u]),
                          panic |-> FALSE]
    IN  UNION { IF d.panic THEN {[s |-> s, ins |-> d.ins, panic |-> TRUE]}
                ELSE UNION { IF p.panic
                             THEN {[s |-> s, ins |-> d.ins \o p.ins, panic |-> TRUE]}
                             ELSE { IF i.panic
                                    THEN [s |-> s, ins |-> d.ins \o p.ins \o i.ins,
                                          panic |-> TRUE]
                                    ELSE end(d, p, i) : i \in items }
                             : p \in props }
                : d \in defs }

\* the Index after the insertions ins: a later insertion under a key
\* replaces an earlier one
IndexOf(ins) ==
    LET keys == {ins[i].key : i \in DOMAIN ins}
        last(k) == CHOOSE i \in DOMAIN ins :
                       /\ ins[i].key = k
                       /\ \A j \in DOMAIN ins : ins[j].key = k => j =< i
    IN  [k \in keys |-> ins[last(k)].s]

\* errors are told apart by their format string
ErrNone == [kind |-> "nil", what |-> EmptyString]
ErrJSON == [kind |-> "jsonschema: %v", what |-> EmptyString]
ErrNotInIndex(ptr) == [kind |-> "jsonschema: %v does not exist in index", what |-> ptr]

\* Parse(b): the results the traversal orders allow.  ret is "return" or
\* "panic"; hasIdx tells a nil *Index from an empty Index
Parse(b) ==
    LET u == Unmarshal(b)
    IN  IF u.err
        THEN {[ret |-> "return", hasIdx |-> FALSE, idx |-> << >>, err |-> ErrJSON]}
        ELSE { IF r.panic
               THEN [ret |-> "panic", hasIdx |-> FALSE, idx |-> << >>, err |-> ErrNone]
               ELSE [ret |-> "return", hasIdx |-> TRUE, idx |-> IndexOf(r.ins),
                     err |-> ErrNone]
               : r \in parse(u.s, Hash) }

(***************************************************************************)
(* resolveRefToSchema (the generator's resolvRefToSchema is the same code).*)
(* A result is [ret, s, err]; s is NilSchema where the code returns nil.   *)
(***************************************************************************)
Returned(s) == [ret |-> "return", s |-> s, err |-> ErrNone]
Failed(err) == [ret |-> "return", s |-> NilSchema, err |-> err]
Panicked == [ret |-> "panic", s |-> NilSchema, err |-> ErrNone]

\* (*idx)[key]: nil when the key is absent
Lookup(index, key) == IF key \in DOMAIN index THEN index[key] ELSE NilSchema

resolveRefToSchema_chases(s, index) ==
    IF s.nil THEN Panicked
    ELSE IF s.Type # K_ref THEN Returned(s)
    ELSE LET ref == Lookup(index, s.Ref)
         IN  IF ref.nil THEN Failed(ErrNotInIndex(s.Ref))
             ELSE IF ref.Type = K_ref /\ ~Lookup(index, ref.Ref).nil
                  THEN Returned(Lookup(index, ref.Ref))
                  ELSE Returned(ref)

resolveRefToSchema_looksUpAll(s, index) ==
    IF s.nil THEN Panicked
    ELSE LET ref == Lookup(index, s.Ref)
         IN  IF ref.nil THEN Failed(ErrNotInIndex(s.Ref))
             ELSE Returned(ref)

resolveRefToSchema(s, index) ==
    IF s.nil THEN Panicked
    ELSE IF s.Type # K_ref THEN Returned(s)
    ELSE LET ref == Lookup(index, s.Ref)
         IN  IF ref.nil THEN Failed(ErrNotInIndex(s.Ref))
             ELSE Returned(ref)

(***************************************************************************)
(* Schema.NewInstance.  A result is [ret, v, err]; ret is "return", "panic"*)
(* (a nil dereference) or "overflow" (the recursion exhausted the stack).  *)
(* The values are Go's: string, int, float64, bool, nil, []interface{} and *)
(* map[string]interface{}.                                                 *)
(***************************************************************************)
V_nil == [t |-> "nil"]
V_string == [t |-> "string", s |-> K_string]
V_int == [t |-> "int", n |-> 42]
V_float == [t |-> "float64", lit |-> "3.14"]
V_bool == [t |-> "bool", b |-> TRUE]
V_slice(elems) == [t |-> "[]interface{}", elems |-> elems]
V_map(m) == [t |-> "map[string]interface{}", m |-> m]

Value(v) == [ret |-> "return", v |-> v, err |-> ErrNone]
NoValue(err) == [ret |-> "return", v |-> V_nil, err |-> err]
Crash(how) == [ret |-> how, v |-> V_nil, err |-> ErrNone]

IsValue(r) == r.ret = "return" /\ r.err = ErrNone

\* lines 149-160: the kinds without children
newPrimitive_wrongInt(s) ==
    IF s.Type = K_string THEN V_string
    ELSE IF s.Type = K_integer THEN V_float
    ELSE IF s.Type = K_number THEN V_float
    ELSE IF s.Type = K_boolean THEN V_bool
    ELSE V_nil

newPrimitive(s) ==
    IF s.Type = K_string THEN V_string
    ELSE IF s.Type = K_integer THEN V_int
    ELSE IF s.Type = K_number THEN V_float
    ELSE IF s.Type = K_boolean THEN V_bool
    ELSE V_nil

RECURSIVE NewInstance(_, _, _)
\* the results of s.NewInstance(idx) at call depth `depth`.  The range over
\* Properties returns the first error it meets, in any order of the names
NewInstance(s, index, depth) ==
    IF s.nil THEN {Crash("panic")}
    ELSE IF depth > StackDepth THEN {Crash("overflow")}
    ELSE IF s.Type = K_ref THEN
        LET r == resolveRefToSchema(s, index)
        IN  IF r.err # ErrNone THEN {NoValue(r.err)}
            ELSE NewInstance(r.s, index, depth + 1)
    ELSE IF s.Type = K_object THEN
        LET sub(name) == NewInstance(s.Properties[name], index, depth + 1)
            bad == UNION {{r \in sub(name) : ~IsValue(r)} : name \in DOMAIN s.Properties}
        IN  IF bad # {} THEN bad
            ELSE {Value(V_map(m)) :
                    m \in {f \in [DOMAIN s.Properties ->
                                    UNION {{r.v : r \in sub(name)}
                                           : name \in DOMAIN s.Properties}] :
                           \A name \in DOMAIN s.Properties :
                               Value(f[name]) \in sub(name)}}
    ELSE IF s.Type = K_array THEN
        {IF IsValue(r) THEN Value(V_slice(<<r.v>>)) ELSE r
            : r \in NewInstance(s.Items, index, depth + 1)}
    ELSE {Value(newPrimitive(s))}

(***************************************************************************)
(* Package golang.  The generated source is kept as its syntax: a type     *)
(* declaration is [decl, name, ...], a struct field [name, type, json], a  *)
(* Validate method [recv, body] with body the statements in the order they *)
(* are written.                                                            *)
(***************************************************************************)
\* the byte order sort.Strings compares by, for the characters in use
ByteOrder ==
    <<"#","-","/","0","1","2","3","4","5","6","7","8","9">> \o Upper \o <<"_">>
    \o Lower \o <<"{","}">>
Byte(c) == CHOOSE i \in DOMAIN ByteOrder : ByteOrder[i] = c

\* a < b for Go strings
StringLess(a, b) ==
    \/ /\ Len(a) < Len(b)
       /\ SubSeq(b, 1, Len(a)) = a
    \/ \E i \in 1..Len(a) :
        /\ i =< Len(b)
        /\ SubSeq(a, 1, i - 1) = SubSeq(b, 1, i - 1)
        /\ Byte(a[i]) < Byte(b[i])

\* sortedMapKeys: the keys of a map in ascending string order
RECURSIVE SortedSet(_)
SortedSet(keys) ==
    IF keys = {} THEN << >>
    ELSE LET least == CHOOSE k \in keys : \A o \in keys \ {k} : StringLess(k, o)
         IN  <<least>> \o SortedSet(keys \ {least})

Reverse(s) == [i \in 1..Len(s) |-> s[Len(s) + 1 - i]]

\* the keys in descending order
sortedMapKeys_descending(m) == Reverse(SortedSet(DOMAIN m))

sortedMapKeys(m) == SortedSet(DOMAIN m)

G_star == <<"*">>
G_int == <<"i","n","t">>
G_float64 == <<"f","l","o","a","t","6","4">>
G_bool == <<"b","o","o","l">>

NoField == [empty |-> TRUE]
Field(name, type, json) == [empty |-> FALSE, name |-> name, type |-> type, json |-> json]

\* a field of a reference that keeps the property's own json name
generateGoRef_ownJSON(s, index) ==
    LET line(f) == [ret |-> "return", field |-> f]
    IN  IF s.nil THEN [ret |-> "panic", field |-> NoField]
        ELSE IF s.Type = K_string THEN line(Field(s.Name, G_star \o K_string, s.JSONName))
        ELSE IF s.Type = K_integer THEN line(Field(s.Name, G_star \o G_int, s.JSONName))
        ELSE IF s.Type = K_number THEN line(Field(s.Name, G_star \o G_float64, s.JSONName))
        ELSE IF s.Type = K_boolean THEN line(Field(s.Name, G_star \o G_bool, s.JSONName))
        ELSE IF s.Type = K_object THEN line(Field(s.Name, G_star \o s.Name, s.JSONName))
        ELSE IF s.Type = K_array THEN line(Field(s.Name, G_star \o s.Name, s.JSONName))
        ELSE IF s.Type = K_ref THEN
            LET ref == Lookup(index, s.Ref)
            IN  IF ref.nil THEN [ret |-> "panic", field |-> NoField]
                ELSE line(Field(s.Name, G_star \o ref.Name, s.JSONName))
        ELSE line(NoField)

\* generateGoRef: [ret, field]; the "ref" case reads ref.Name of a nil ref
\* when the target is not in the Index
generateGoRef(s, index) ==
    LET line(f) == [ret |-> "return", field |-> f]
    IN  IF s.nil THEN [ret |-> "panic", field |-> NoField]
        ELSE IF s.Type = K_string THEN line(Field(s.Name, G_star \o K_string, s.JSONName))
        ELSE IF s.Type = K_integer THEN line(Field(s.Name, G_star \o G_int, s.JSONName))
        ELSE IF s.Type = K_number THEN line(Field(s.Name, G_star \o G_float64, s.JSONName))
        ELSE IF s.Type = K_boolean THEN line(Field(s.Name, G_star \o G_bool, s.JSONName))
        ELSE IF s.Type = K_object THEN line(Field(s.Name, G_star \o s.Name, s.JSONName))
        ELSE IF s.Type = K_array THEN line(Field(s.Name, G_star \o s.Name, s.JSONName))
        ELSE IF s.Type = K_ref THEN
            LET ref == Lookup(index, s.Ref)
            IN  IF ref.nil THEN [ret |-> "panic", field |-> NoField]
                ELSE line(Field(s.Name, G_star \o ref.Name, ref.JSONName))
        ELSE line(NoField)

\* a Go identifier: a letter or _ followed by letters, digits and _
IsIdentifier(name) ==
    /\ name # EmptyString
    /\ name[1] \notin Digits
    /\ \A i \in 1..Len(name) :
        IsLower(name[i]) \/ IsUpper(name[i]) \/ name[i] \in Digits \/ name[i] = "_"

NoSource == [empty |-> TRUE]
ErrFormat == [kind |-> "format.Source", what |-> EmptyString]

Generated(out) == [ret |-> "return", out |-> out, err |-> ErrNone]
NotGenerated(err) == [ret |-> "return", out |-> NoSource, err |-> err]
GenPanicked == [ret |-> "panic", out |-> NoSource, err |-> ErrNone]

\* does the Go parser of format.Source accept the source
RECURSIVE Parses(_)
Parses(out) ==
    \/ out.empty
    \/ /\ out.decl = "struct"
       /\ IsIdentifier(out.name)
       /\ \A i \in DOMAIN out.fields :
            /\ IsIdentifier(out.fields[i].name)
            /\ IsIdentifier(Tail(out.fields[i].type))
    \/ /\ out.decl = "slice"
       /\ IsIdentifier(out.name)
       /\ IsIdentifier(out.elem)
    \/ /\ out.decl = "func"
       /\ IsIdentifier(out.recv)
       /\ \A i \in DOMAIN out.body :
            out.body[i].stmt \in {"check", "call"} => IsIdentifier(out.body[i].field)
    \/ /\ out.decl = "file"
       /\ \A i \in DOMAIN out.decls : Parses(out.decls[i])
    \/ out.decl = "newfuncs"
    \/ /\ out.decl = "package"
       /\ IsIdentifier(out.pack)
       /\ Parses(out.src)

\* format.Source(w.Bytes()): the source, or an error when it does not parse
formatSource(out) == IF Parses(out) THEN Generated(out) ELSE NotGenerated(ErrFormat)

\* the fields of the properties keys[1..], up to the first panic
RECURSIVE structFields(_, _, _)
structFields(s, index, keys) ==
    IF keys = << >> THEN [ret |-> "return", fields |-> << >>]
    ELSE LET ref == generateGoRef(s.Properties[Head(keys)], index)
         IN  IF ref.ret = "panic" THEN [ret |-> "panic", fields |-> << >>]
             ELSE LET rest == structFields(s, index, Tail(keys))
                  IN  IF rest.ret = "panic" THEN rest
                      ELSE [ret |-> "return",
                            fields |-> (IF ref.field.empty THEN << >> ELSE <<ref.field>>)
                                       \o rest.fields]

generateGoType(s, index) ==
    IF s.nil THEN GenPanicked
    ELSE IF s.Type = K_object THEN
        LET f == structFields(s, index, sortedMapKeys(s.Properties))
        IN  IF f.ret = "panic" THEN GenPanicked
            ELSE formatSource([empty |-> FALSE, decl |-> "struct", name |-> s.Name,
                               fields |-> f.fields])
    ELSE IF s.Type = K_array THEN
        LET p == resolveRefToSchema(s.Items, index)
        IN  IF p.ret = "panic" THEN GenPanicked
            ELSE IF p.err # ErrNone THEN NotGenerated(p.err)
            ELSE formatSource([empty |-> FALSE, decl |-> "slice", name |-> s.Name,
                               elem |-> IF p.s # s.Items THEN p.s.Name ELSE s.Items.Type])
    ELSE formatSource(NoSource)

\* generateRequiredValidationCheck: the presence checks of s.Required[i..]
RECURSIVE requiredChecks(_, _, _)
requiredChecks(s, index, i) ==
    IF i > Len(s.Required) THEN [err |-> ErrNone, checks |-> << >>]
    ELSE LET p == s.Required[i]
             ptr == s.Pointer \o SlashProperties \o p
             rs == Lookup(index, ptr)
         IN  IF rs.nil THEN [err |-> ErrNotInIndex(ptr), checks |-> << >>]
             ELSE LET rest == requiredChecks(s, index, i + 1)
                  IN  IF rest.err # ErrNone THEN rest
                      ELSE [err |-> ErrNone,
                            checks |-> <<[stmt |-> "check", field |-> rs.Name,
                                          invalid |-> s.JSONName, missing |-> p]>>
                                       \o rest.checks]

\* the presence checks in the reverse of the order of s.Required
generateRequiredValidationCheck_lastFirst(index, s) ==
    [err |-> requiredChecks(s, index, 1).err,
     checks |-> Reverse(requiredChecks(s, index, 1).checks)]

generateRequiredValidationCheck(index, s) == requiredChecks(s, index, 1)

\* Validate() calls for the properties that are objects or arrays themselves,
\* none for a reference
RECURSIVE validateCalls_ownKind(_, _, _, _)
validateCalls_ownKind(s, index, keys, declared) ==
    IF keys = << >> THEN [err |-> ErrNone, calls |-> << >>]
    ELSE LET p == s.Properties[Head(keys)]
             nested == p.Type = K_object \/ p.Type = K_array
             rest == validateCalls_ownKind(s, index, Tail(keys), declared \/ nested)
         IN  [err |-> ErrNone,
              calls |-> (IF nested
                         THEN <<[stmt |-> "call", field |-> p.Name,
                                 assign |-> IF declared THEN "=" ELSE ":="]>>
                         ELSE << >>) \o rest.calls]

\* lines 791-804: the Validate() calls of the properties keys[1..]; declared
\* tells whether an earlier call already declared err
RECURSIVE validateCalls(_, _, _, _)
validateCalls(s, index, keys, declared) ==
    IF keys = << >> THEN [err |-> ErrNone, calls |-> << >>]
    ELSE LET p == resolveRefToSchema(s.Properties[Head(keys)], index)
         IN  IF p.err # ErrNone THEN [err |-> p.err, calls |-> << >>]
             ELSE LET nested == p.s.Type = K_object \/ p.s.Type = K_array
                      rest == validateCalls(s, index, Tail(keys), declared \/ nested)
                  IN  IF rest.err # ErrNone THEN rest
                      ELSE [err |-> ErrNone,
                            calls |-> (IF nested
                                       THEN <<[stmt |-> "call", field |-> p.s.Name,
                                               assign |-> IF declared THEN "=" ELSE ":="]>>
                                       ELSE << >>) \o rest.calls]

\* lines 811-816: for _, a := range *t { err := a.Validate() ... }
ElementLoop == [stmt |-> "loop", assign |-> ":="]
\* line 823: return nil
ReturnNil == [stmt |-> "return"]

\* the Validate() calls written before the presence checks
generateGoTypeValidateFunc_callsFirst(s, index) ==
    IF s.nil THEN GenPanicked
    ELSE IF s.Type = K_object THEN
        LET c == generateRequiredValidationCheck(index, s)
        IN  IF c.err # ErrNone THEN NotGenerated(c.err)
            ELSE LET v == validateCalls(s, index, sortedMapKeys(s.Properties), FALSE)
                 IN  IF v.err # ErrNone THEN NotGenerated(v.err)
                     ELSE formatSource([empty |-> FALSE, decl |-> "func", recv |-> s.Name,
                                        body |-> v.calls \o c.checks \o <<ReturnNil>>])
    ELSE IF s.Type = K_array THEN
        LET as == resolveRefToSchema(s.Items, index)
        IN  IF as.ret = "panic" THEN GenPanicked
            ELSE IF as.err # ErrNone THEN NotGenerated(as.err)
            ELSE formatSource([empty |-> FALSE, decl |-> "func", recv |-> s.Name,
                               body |-> (IF as.s.Type = K_object \/ as.s.Type = K_array
                                         THEN <<ElementLoop>> ELSE << >>)
                                        \o <<ReturnNil>>])
    ELSE Generated(NoSource)

\* the element loop written only for items that are objects
generateGoTypeValidateFunc_objectItems(s, index) ==
    IF s.nil THEN GenPanicked
    ELSE IF s.Type = K_object THEN
        LET c == generateRequiredValidationCheck(index, s)
        IN  IF c.err # ErrNone THEN NotGenerated(c.err)
            ELSE LET v == validateCalls(s, index, sortedMapKeys(s.Properties), FALSE)
                 IN  IF v.err # ErrNone THEN NotGenerated(v.err)
                     ELSE formatSource([empty |-> FALSE, decl |-> "func", recv |-> s.Name,
                                        body |-> c.checks \o v.calls \o <<ReturnNil>>])
    ELSE IF s.Type = K_array THEN
        LET as == resolveRefToSchema(s.Items, index)
        IN  IF as.ret = "panic" THEN GenPanicked
            ELSE IF as.err # ErrNone THEN NotGenerated(as.err)
            ELSE formatSource([empty |-> FALSE, decl |-> "func", recv |-> s.Name,
                               body |-> (IF as.s.Type = K_object
                                         THEN <<ElementLoop>> ELSE << >>)
                                        \o <<ReturnNil>>])
    ELSE Generated(NoSource)

generateGoTypeValidateFunc(s, index) ==
    IF s.nil THEN GenPanicked
    ELSE IF s.Type = K_object THEN
        LET c == generateRequiredValidationCheck(index, s)
        IN  IF c.err # ErrNone THEN NotGenerated(c.err)
            ELSE LET v == validateCalls(s, index, sortedMapKeys(s.Properties), FALSE)
                 IN  IF v.err # ErrNone THEN NotGenerated(v.err)
                     ELSE formatSource([empty |-> FALSE, decl |-> "func", recv |-> s.Name,
                                        body |-> c.checks \o v.calls \o <<ReturnNil>>])
    ELSE IF s.Type = K_array THEN
        LET as == resolveRefToSchema(s.Items, index)
        IN  IF as.ret = "panic" THEN GenPanicked
            ELSE IF as.err # ErrNone THEN NotGenerated(as.err)
            ELSE formatSource([empty |-> FALSE, decl |-> "func", recv |-> s.Name,
                               body |-> (IF as.s.Type = K_object \/ as.s.Type = K_array
                                         THEN <<ElementLoop>> ELSE << >>)
                                        \o <<ReturnNil>>])
    ELSE Generated(NoSource)

(***************************************************************************)
(* The generators of a whole Index.  A source file is [decl |-> "file",    *)
(* decls], a package [decl |-> "package", pack, imports, src].             *)
(***************************************************************************)
\* byName.Less
Less(a, b) == StringLess(a.Name, b.Name)

\* sort.Sort(byName(schemas)) of the schemas collected in map order: the
\* keys in ascending Name, as a sequence of sets; the keys of one set have
\* equal Names, Less tells none of them from another, and they come out in
\* the order the map yielded them, which is any
RECURSIVE byName(_, _)
byName(index, keys) ==
    IF keys = {} THEN << >>
    ELSE LET least == {index[k].Pointer
                       : k \in {k \in keys : \A o \in keys : ~Less(index[o], index[k])}}
         IN  <<least>> \o byName(index, keys \ least)

sortedMapKeysbyName(index) == byName(index, DOMAIN index)

\* the orders a set of keys may come out in
RECURSIVE Orders(_)
Orders(keys) ==
    IF keys = {} THEN {<< >>}
    ELSE UNION {{<<k>> \o rest : rest \in Orders(keys \ {k})} : k \in keys}

File(decls) == [empty |-> decls = << >>, decl |-> "file", decls |-> decls]

\* a loop over the Index that has written decls so far
Written(decls) == [ret |-> "return", decls |-> decls, err |-> ErrNone]

\* lines 697-706 for the keys keys[1..], r being the loop before them: it
\* ends at the first error or panic
RECURSIVE goTypes(_, _, _)
goTypes(r, index, keys) ==
    IF r.ret = "panic" \/ r.err # ErrNone \/ keys = << >> THEN r
    ELSE LET t == generateGoType(Lookup(index, Head(keys)), index)
         IN  goTypes(IF t.ret = "panic" \/ t.err # ErrNone
                     THEN [ret |-> t.ret, decls |-> << >>, err |-> t.err]
                     ELSE Written(r.decls \o (IF t.out.empty THEN << >> ELSE <<t.out>>)),
                     index, Tail(keys))

\* the loop over each order of each set of sortedMapKeysbyName
RECURSIVE goTypesEach(_, _, _)
goTypesEach(rs, index, sets) ==
    IF sets = << >> THEN rs
    ELSE goTypesEach({goTypes(r, index, keys) : r \in rs, keys \in Orders(Head(sets))},
                     index, Tail(sets))

\* the result of a loop over the Index as the result of its generator
Batch(r) ==
    IF r.ret = "panic" THEN GenPanicked
    ELSE IF r.err # ErrNone THEN NotGenerated(r.err)
    ELSE formatSource(File(r.decls))

\* generateGoTypes: one result for each order sortedMapKeysbyName may yield
generateGoTypes(index) ==
    {Batch(r) : r \in goTypesEach({Written(<< >>)}, index, sortedMapKeysbyName(index))}

\* lines 762-770
RECURSIVE goValidateFuncs(_, _, _)
goValidateFuncs(r, index, keys) ==
    IF r.ret = "panic" \/ r.err # ErrNone \/ keys = << >> THEN r
    ELSE LET t == generateGoTypeValidateFunc(Lookup(index, Head(keys)), index)
         IN  goValidateFuncs(IF t.ret = "panic" \/ t.err # ErrNone
                             THEN [ret |-> t.ret, decls |-> << >>, err |-> t.err]
                             ELSE Written(r.decls
                                          \o (IF t.out.empty THEN << >> ELSE <<t.out>>)),
                             index, Tail(keys))

RECURSIVE goValidateFuncsEach(_, _, _)
goValidateFuncsEach(rs, index, sets) ==
    IF sets = << >> THEN rs
    ELSE goValidateFuncsEach({goValidateFuncs(r, index, keys)
                              : r \in rs, keys \in Orders(Head(sets))},
                             index, Tail(sets))

generateGoTypesValidateFuncs(index) ==
    {Batch(r) : r \in goValidateFuncsEach({Written(<< >>)}, index,
                                           sortedMapKeysbyName(index))}

\* generateGoPrimitiveTypesNewFuncs: newString, newInt, newFloat, newBool
NewFuncs == [empty |-> FALSE, decl |-> "newfuncs"]
generateGoPrimitiveTypesNewFuncs == Generated(NewFuncs)

\* Src: types, then validate funcs, then the new funcs; the first failure
\* ends it with nothing but the error
SrcOf(typ, vf) ==
    IF typ.ret = "panic" THEN GenPanicked
    ELSE IF typ.err # ErrNone THEN NotGenerated(typ.err)
    ELSE IF vf.ret = "panic" THEN GenPanicked
    ELSE IF vf.err # ErrNone THEN NotGenerated(vf.err)
    ELSE formatSource(File((IF typ.out.empty THEN << >> ELSE typ.out.decls)
                           \o (IF vf.out.empty THEN << >> ELSE vf.out.decls)
                           \o <<generateGoPrimitiveTypesNewFuncs.out>>))

Src(index) ==
    {SrcOf(typ, vf) : typ \in generateGoTypes(index),
                      vf \in generateGoTypesValidateFuncs(index)}

\* strings.Contains
Contains(s, substr) == \E i \in 1..(Len(s) + 1) : OccursAt(s, substr, i)

W_errors == <<"e","r","r","o","r","s">>
W_fmt == <<"f","m","t">>
W_main == <<"m","a","i","n">>

\* the strings the text of a source is made of besides the fixed words of
\* the templates, none of which holds "errors" or "fmt" but errors.New
RECURSIVE Words(_)
Words(out) ==
    IF out.empty THEN {}
    ELSE IF out.decl = "struct" THEN
        {out.name} \cup UNION {{out.fields[i].name, out.fields[i].type, out.fields[i].json}
                               : i \in DOMAIN out.fields}
    ELSE IF out.decl = "slice" THEN {out.name, out.elem}
    ELSE IF out.decl = "func" THEN
        {out.recv} \cup UNION {IF out.body[i].stmt = "check"
                               THEN {out.body[i].field, out.body[i].invalid,
                                     out.body[i].missing, W_errors}
                               ELSE IF out.body[i].stmt = "call"
                               THEN {out.body[i].field}
                               ELSE {}
                               : i \in DOMAIN out.body}
    ELSE IF out.decl = "file" THEN UNION {Words(out.decls[i]) : i \in DOMAIN out.decls}
    ELSE {}

\* Imports: "errors" and "fmt" when the text holds the word, sorted
Imports(src) ==
    (IF \E w \in Words(src) : Contains(w, W_errors) THEN <<W_errors>> ELSE << >>)
    \o (IF \E w \in Words(src) : Contains(w, W_fmt) THEN <<W_fmt>> ELSE << >>)

PackageSrcOf(src, pack) ==
    IF src.ret = "panic" THEN GenPanicked
    ELSE IF src.err # ErrNone THEN NotGenerated(src.err)
    ELSE formatSource([empty |-> FALSE, decl |-> "package", pack |-> pack,
                       imports |-> Imports(src.out), src |-> src.out])

PackageSrc(index, pack) == {PackageSrcOf(src, pack) : src \in Src(index)}

(***************************************************************************)
(* The generated package, compiled and run as the tests do: go build of    *)
(* the package with "fmt" added to its imports and a main that builds a    *)
(* value and prints the error of its Validate().                           *)
(***************************************************************************)
\* the predeclared Go types the generated fields use
GoTypes == {K_string, G_int, G_float64, G_bool}

TypeDecls(src) == SelectSeq(src.decls, LAMBDA d : d.decl \in {"struct", "slice"})
Methods(src) == SelectSeq(src.decls, LAMBDA d : d.decl = "func")

Declared(src, T) == \E i \in DOMAIN TypeDecls(src) : TypeDecls(src)[i].name = T
TypeDecl(src, T) == TypeDecls(src)[CHOOSE i \in DOMAIN TypeDecls(src) : TypeDecls(src)[i].name = T]
HasMethod(src, T) == \E i \in DOMAIN Methods(src) : Methods(src)[i].recv = T
Method(src, T) == Methods(src)[CHOOSE i \in DOMAIN Methods(src) : Methods(src)[i].recv = T]
HasField(d, name) == d.decl = "struct" /\ \E i \in DOMAIN d.fields : d.fields[i].name = name
FieldOf(d, name) == d.fields[CHOOSE i \in DOMAIN d.fields : d.fields[i].name = name]
\* the type a field of type *U points to
Elem(f) == Tail(f.type)

\* go build: no name declared twice, no type undefined, every selector a
\* field, every Validate a method, no import unused or repeated
Compiles(pkg) ==
    LET src == pkg.src
        types == TypeDecls(src)
        funcs == Methods(src)
    IN  /\ \A i \in DOMAIN pkg.imports : pkg.imports[i] # W_fmt
        /\ (\E i \in DOMAIN pkg.imports : pkg.imports[i] = W_errors) =>
               \E i \in DOMAIN funcs : \E j \in DOMAIN funcs[i].body :
                   funcs[i].body[j].stmt = "check"
        /\ \A i, j \in DOMAIN types : types[i].name = types[j].name => i = j
        /\ \A i, j \in DOMAIN funcs : funcs[i].recv = funcs[j].recv => i = j
        /\ \A i \in DOMAIN types :
            IF types[i].decl = "struct"
            THEN \A j \in DOMAIN types[i].fields :
                    /\ Elem(types[i].fields[j]) \in GoTypes
                       \/ Declared(src, Elem(types[i].fields[j]))
                    /\ \A k \in DOMAIN types[i].fields :
                        types[i].fields[j].name = types[i].fields[k].name => j = k
            ELSE types[i].elem \in GoTypes \/ Declared(src, types[i].elem)
        /\ \A i \in DOMAIN funcs :
            /\ Declared(src, funcs[i].recv)
            /\ LET d == TypeDecl(src, funcs[i].recv)
               IN  \A j \in DOMAIN funcs[i].body :
                    LET st == funcs[i].body[j]
                    IN  /\ st.stmt = "check" => HasField(d, st.field)
                        /\ st.stmt = "call" =>
                            /\ HasField(d, st.field)
                            /\ HasMethod(src, Elem(FieldOf(d, st.field)))
                        /\ st.stmt = "loop" =>
                            /\ d.decl = "slice"
                            /\ HasMethod(src, d.elem)

\* Go values of the generated types: a nil pointer, a primitive, a struct
\* with its fields, a slice with its elements
Nil == [v |-> "nil"]
Prim == [v |-> "prim"]
StructVal(f) == [v |-> "struct", f |-> f]
SliceVal(e) == [v |-> "slice", e |-> e]

\* the values of type T that hold at most n structs, slices and slice
\* elements, each with the number it holds
RECURSIVE Sized(_, _, _), sizedFields(_, _, _, _), sizedElems(_, _, _)
Sized(src, T, n) ==
    IF T \in GoTypes THEN {[v |-> Prim, n |-> 0]}
    ELSE LET decl == TypeDecl(src, T)
         IN  IF decl.decl = "struct"
             THEN {[v |-> StructVal(x.f), n |-> x.n] : x \in sizedFields(src, decl, 1, n)}
             ELSE {[v |-> SliceVal(x.e), n |-> x.n] : x \in sizedElems(src, decl.elem, n)}

\* the fields i.. of a struct: nil, or a pointer to a value
sizedFields(src, decl, i, n) ==
    IF i > Len(decl.fields) THEN {[f |-> << >>, n |-> 0]}
    ELSE LET U == Elem(decl.fields[i])
             first == {[v |-> Nil, n |-> 0]} \cup
                      (IF U \in GoTypes THEN {[v |-> Prim, n |-> 0]}
                       ELSE IF n > 0
                       THEN {[v |-> x.v, n |-> x.n + 1] : x \in Sized(src, U, n - 1)}
                       ELSE {})
         IN  UNION { { [f |-> (decl.fields[i].name :> c.v) @@ rest.f,
                        n |-> c.n + rest.n]
                       : rest \in sizedFields(src, decl, i + 1, n - c.n) }
                     : c \in first }

sizedElems(src, U, n) ==
    {[e |-> << >>, n |-> 0]} \cup
    (IF n > 0
     THEN UNION { { [e |-> <<c.v>> \o rest.e, n |-> c.n + 1 + rest.n]
                    : rest \in sizedElems(src, U, n - 1 - c.n) }
                  : c \in Sized(src, U, n - 1) }
     ELSE {})

Instances(src, T) == {x.v : x \in Sized(src, T, MaxValues)}

\* what a Validate() call comes to: nil, an error made by errors.New (at
\* tells how many calls below the first one made it), or a nil dereference
Passed ==
    [ret |-> "return", fail |-> FALSE, invalid |-> EmptyString,
     missing |-> EmptyString, at |-> 0]
Invalid(invalid, missing, at) ==
    [ret |-> "return", fail |-> TRUE, invalid |-> invalid, missing |-> missing, at |-> at]
NilDereference ==
    [ret |-> "panic", fail |-> FALSE, invalid |-> EmptyString,
     missing |-> EmptyString, at |-> 0]

\* the generated func (t *T) Validate() error run on t; a statement that
\* reads t.X or *t panics when t is nil
RECURSIVE Validate(_, _, _, _), runBody(_, _, _, _, _), runLoop(_, _, _, _)
Validate(src, T, t, at) == runBody(src, T, t, Method(src, T).body, at)

runBody(src, T, t, body, at) ==
    LET st == Head(body)
    IN  IF st.stmt = "return" THEN Passed
        ELSE IF t.v = "nil" THEN NilDereference
        ELSE IF st.stmt = "check" THEN
            IF t.f[st.field].v = "nil" THEN Invalid(st.invalid, st.missing, at)
            ELSE runBody(src, T, t, Tail(body), at)
        ELSE IF st.stmt = "call" THEN
            LET r == Validate(src, Elem(FieldOf(TypeDecl(src, T), st.field)),
                              t.f[st.field], at + 1)
            IN  IF r = Passed THEN runBody(src, T, t, Tail(body), at) ELSE r
        ELSE LET r == runLoop(src, TypeDecl(src, T).elem, t.e, at + 1)
             IN  IF r = Passed THEN runBody(src, T, t, Tail(body), at) ELSE r

runLoop(src, U, elems, at) ==
    IF elems = << >> THEN Passed
    ELSE LET r == Validate(src, U, Head(elems), at)
         IN  IF r = Passed THEN runLoop(src, U, Tail(elems), at) ELSE r

(***************************************************************************)
(* The documents given to Parse.                                           *)
(***************************************************************************)
N_id == S_id
N_b == <<"b">>
N_idPropertiesB == N_id \o SlashProperties \o N_b
N_zz == <<"z","z">>

\* the names a definitions map draws its keys from; the third one spells a
\* path below the first
Names == {N_id, N_b, N_idPropertiesB}

RefTo(name) == HashSlashDefinitions \o name

Leaf(type, ref) == JObject(type, ref, << >>, << >>, JAbsent, << >>)

\* sub-schemas used as the property of an object or the items of an array
InnerLeaves ==
    {Leaf(K_integer, EmptyString), Leaf(K_string, RefTo(N_id)),
     Leaf(K_none, RefTo(N_zz)), JNull}

TopLeaves ==
    {Leaf(K_string, EmptyString), Leaf(K_number, EmptyString),
     Leaf(K_boolean, EmptyString), Leaf(K_null, EmptyString),
     Leaf(K_none, RefTo(N_b)), JNumber}

Objects ==
    {JObject(K_object, EmptyString, << >>, << >>, JAbsent, req)
        : req \in {<< >>, <<N_b>>}}
    \cup {JObject(K_object, EmptyString, << >>, [n \in {N_b} |-> x], JAbsent, << >>)
        : x \in InnerLeaves}
    \cup {JObject(K_object, EmptyString, << >>,
                  [n \in {N_b} |-> Leaf(K_integer, EmptyString)], JAbsent, <<N_b>>)}

\* arrays of each of them, and the array that declares no items
Arrays ==
    {JObject(K_array, EmptyString, << >>, << >>, x, << >>)
        : x \in InnerLeaves \cup {JAbsent}}

Definable == TopLeaves \cup Objects \cup Arrays

\* a root with up to MaxKeys definitions; also bytes that are no JSON, the
\* document `null` and a document that is a number
Docs ==
    {JInvalid, JNull, JNumber}
    \cup UNION { { JObject(K_none, EmptyString, m, << >>, JAbsent, << >>)
                   : m \in [keys -> Definable] }
                 : keys \in {k \in SUBSET Names : Cardinality(k) \in 1..MaxKeys} }

(***************************************************************************)
(* The schemas given to the generators: definitions of objects with two    *)
(* properties, nested objects, references to other definitions and arrays  *)
(* of each kind of items.                                                  *)
(***************************************************************************)
N_z == <<"-","z">>
N_c == <<"c">>
N_mb == <<"-","b">>

\* two of the names derive the Name B
SchemaNames == {N_id, N_b, N_mb}

Object(properties, required) ==
    JObject(K_object, EmptyString, << >>, properties, JAbsent, required)
Array(items) == JObject(K_array, EmptyString, << >>, << >>, items, << >>)

Integer == Leaf(K_integer, EmptyString)
Ref(name) == Leaf(K_none, RefTo(name))
\* {"type":"object","properties":{"c":{"type":"integer"}},"required":["c"]}
InnerObject == Object([n \in {N_c} |-> Integer], <<N_c>>)

\* the properties "-z" and a second one; their Names come in the other order
Properties(z, n, x) == [k \in {N_z, n} |-> IF k = N_z THEN z ELSE x]

SchemaMenu ==
    {Leaf(K_null, EmptyString), Leaf(K_string, EmptyString),
     Object(Properties(Integer, N_c, Integer), <<N_c, N_z>>),
     Object(Properties(InnerObject, N_b, Ref(N_mb)), <<N_b, N_z>>),
     Object(Properties(Leaf(K_null, EmptyString), N_c, Ref(N_id)), << >>),
     Object(<< >>, <<N_c>>),
     Object([n \in {N_c} |-> Ref(N_zz)], << >>),
     Object([n \in {N_z} |-> InnerObject], << >>),
     Array(Leaf(K_string, EmptyString)), Array(Integer),
     Array(Ref(N_mb)), Array(InnerObject), Array(JAbsent)}

Schemas ==
    UNION { { JObject(K_none, EmptyString, m, << >>, JAbsent, << >>)
              : m \in [keys -> SchemaMenu] }
            : keys \in {k \in SUBSET SchemaNames : Cardinality(k) \in 1..MaxKeys} }

(***************************************************************************)
(* The state machine: one Parse, then any calls on the Index it returned,   *)
(* one after another.                                                      *)
(***************************************************************************)
NoDoc == [j |-> "none"]
NotParsed == [ret |-> "none", hasIdx |-> FALSE, err |-> ErrNone]
NoOp == [name |-> "none"]

HaveIndex == parsed.ret = "return" /\ parsed.hasIdx

Init ==
    /\ doc = NoDoc
    /\ parsed = NotParsed
    /\ idx = << >>
    /\ op = NoOp

\* idx, err := Parse(b)
DoParse ==
    /\ parsed.ret = "none"
    /\ \E b \in Docs : \E r \in Parse(b) :
        /\ doc' = b
        /\ parsed' = [ret |-> r.ret, hasIdx |-> r.hasIdx, err |-> r.err]
        /\ idx' = r.idx
    /\ op' = NoOp

\* a second, independent Parse of the same bytes
DoParseAgain ==
    /\ HaveIndex
    /\ op = NoOp
    /\ \E r \in Parse(doc) : op' = [name |-> "Parse", res |-> r]
    /\ UNCHANGED <<doc, parsed, idx>>

\* resolveRefToSchema(s, idx) for an entry s of the Index
DoResolve ==
    /\ HaveIndex
    /\ op = NoOp
    /\ \E k \in DOMAIN idx :
        op' = [name |-> "resolveRefToSchema", arg |-> idx[k],
               res |-> resolveRefToSchema(idx[k], idx)]
    /\ UNCHANGED <<doc, parsed, idx>>

\* s.NewInstance(idx) for an entry s of the Index
DoNewInstance ==
    /\ HaveIndex
    /\ op = NoOp
    /\ \E k \in DOMAIN idx : \E r \in NewInstance(idx[k], idx, 1) :
        op' = [name |-> "NewInstance", arg |-> idx[k], res |-> r]
    /\ UNCHANGED <<doc, parsed, idx>>

\* generateGoType keeping the element type it works out in s.Items.Type
\* instead of in a local variable
DoGenerateGoType_writesItemsType ==
    /\ HaveIndex
    /\ op = NoOp
    /\ \E k \in DOMAIN idx :
        LET res == generateGoType(idx[k], idx)
        IN  /\ op' = [name |-> "generateGoType", arg |-> idx[k], res |-> res]
            /\ idx' = IF idx[k].Type = K_array /\ res.ret = "return" /\ res.err = ErrNone
                       THEN [idx EXCEPT ![k].Items.Type = res.out.elem]
                       ELSE idx
    /\ UNCHANGED <<doc, parsed>>

\* generateGoType(s, idx) for an entry s of the Index
DoGenerateGoType ==
    /\ HaveIndex
    /\ op = NoOp
    /\ \E k \in DOMAIN idx :
        op' = [name |-> "generateGoType", arg |-> idx[k],
               res |-> generateGoType(idx[k], idx)]
    /\ UNCHANGED <<doc, parsed, idx>>

\* generateGoTypeValidateFunc(s, idx) for an entry s of the Index
DoGenerateGoTypeValidateFunc ==
    /\ HaveIndex
    /\ op = NoOp
    /\ \E k \in DOMAIN idx :
        op' = [name |-> "generateGoTypeValidateFunc", arg |-> idx[k],
               res |-> generateGoTypeValidateFunc(idx[k], idx)]
    /\ UNCHANGED <<doc, parsed, idx>>

\* the caller is done with the result of the last call and is free to make
\* the next one
DoReturn ==
    /\ op # NoOp
    /\ op' = NoOp
    /\ UNCHANGED <<doc, parsed, idx>>

Next ==
    \/ DoReturn
    \/ DoParse
    \/ DoParseAgain
    \/ DoResolve
    \/ DoNewInstance
    \/ DoGenerateGoType
    \/ DoGenerateGoTypeValidateFunc

Spec == Init /\ [][Next]_vars

(***************************************************************************)
(* The generator: Parse of a schema, then the generators on its Index and  *)
(* the generated Validate() on values of the generated types.              *)
(***************************************************************************)
\* idx, err := jsonschema.Parse([]byte(schema))
DoParseSchema ==
    /\ parsed.ret = "none"
    /\ \E b \in Schemas : \E r \in Parse(b) :
        /\ doc' = b
        /\ parsed' = [ret |-> r.ret, hasIdx |-> r.hasIdx, err |-> r.err]
        /\ idx' = r.idx
    /\ op' = NoOp

\* generateGoRef(s, idx) for an entry s of the Index
DoGenerateGoRef ==
    /\ HaveIndex
    /\ op = NoOp
    /\ \E k \in DOMAIN idx :
        op' = [name |-> "generateGoRef", arg |-> idx[k],
               res |-> generateGoRef(idx[k], idx)]
    /\ UNCHANGED <<doc, parsed, idx>>

\* generateGoTypes(idx)
DoGenerateGoTypes ==
    /\ HaveIndex
    /\ op = NoOp
    /\ \E r \in generateGoTypes(idx) : op' = [name |-> "generateGoTypes", res |-> r]
    /\ UNCHANGED <<doc, parsed, idx>>

\* generateGoTypesValidateFuncs(idx)
DoGenerateGoTypesValidateFuncs ==
    /\ HaveIndex
    /\ op = NoOp
    /\ \E r \in generateGoTypesValidateFuncs(idx) :
        op' = [name |-> "generateGoTypesValidateFuncs", res |-> r]
    /\ UNCHANGED <<doc, parsed, idx>>

\* Src(idx)
DoSrc ==
    /\ HaveIndex
    /\ op = NoOp
    /\ \E r \in Src(idx) : op' = [name |-> "Src", res |-> r]
    /\ UNCHANGED <<doc, parsed, idx>>

\* PackageSrc(idx, "main")
DoPackageSrc ==
    /\ HaveIndex
    /\ op = NoOp
    /\ \E r \in PackageSrc(idx, W_main) : op' = [name |-> "PackageSrc", res |-> r]
    /\ UNCHANGED <<doc, parsed, idx>>

\* the generated package built and run: v.Validate() for a value v of the
\* type generated for an entry of the Index
DoValidate ==
    /\ HaveIndex
    /\ op = NoOp
    /\ \E pkg \in PackageSrc(idx, W_main) :
        /\ pkg.ret = "return"
        /\ pkg.err = ErrNone
        /\ Compiles(pkg.out)
        /\ \E k \in DOMAIN idx :
            /\ idx[k].Type \in {K_object, K_array}
            /\ \E v \in Instances(pkg.out.src, idx[k].Name) :
                op' = [name |-> "Validate", arg |-> idx[k], src |-> pkg.out.src,
                       inst |-> v, res |-> Validate(pkg.out.src, idx[k].Name, v, 0)]
    /\ UNCHANGED <<doc, parsed, idx>>

GenNext ==
    \/ DoReturn
    \/ DoParseSchema
    \/ DoGenerateGoRef
    \/ DoGenerateGoType
    \/ DoGenerateGoTypeValidateFunc
    \/ DoGenerateGoTypes
    \/ DoGenerateGoTypesValidateFuncs
    \/ DoSrc
    \/ DoPackageSrc
    \/ DoValidate

GenSpec == Init /\ [][GenNext]_vars

(***************************************************************************)
(* The names: Parse of a document whose one definition has a name made of  *)
(* letters of both cases, the characters the naming strips and a character *)
(* that ends a word.                                                       *)
(***************************************************************************)
Alphabet == {"i", "d", "I", "a", "p", "u", "r", "l", "-", "_", "{", "}", "."}

\* the strings of at most n characters of the Alphabet
RECURSIVE Strings(_)
Strings(n) ==
    IF n = 0 THEN {EmptyString}
    ELSE LET shorter == Strings(n - 1)
         IN  shorter \cup {Append(s, c) : s \in {t \in shorter : Len(t) = n - 1},
                                          c \in Alphabet}

NamedSchemas ==
    { JObject(K_none, EmptyString, [n \in {name} |-> Leaf(K_string, EmptyString)],
              << >>, JAbsent, << >>)
      : name \in Strings(MaxLen) \ {EmptyString} }

\* idx, err := Parse(b) for a document with a definition of some name
DoParseNamed ==
    /\ parsed.ret = "none"
    /\ \E b \in NamedSchemas : \E r \in Parse(b) :
        /\ doc' = b
        /\ parsed' = [ret |-> r.ret, hasIdx |-> r.hasIdx, err |-> r.err]
        /\ idx' = r.idx
    /\ op' = NoOp

NameNext ==
    \/ DoReturn
    \/ DoParseNamed
    \/ DoResolve

NameSpec == Init /\ [][NameNext]_vars

(***************************************************************************)
(* Parse, one insertion into the Index at a time: the documents have nodes *)
(* with definitions, properties and items at once, nodes three levels      *)
(* deep, a null where a sub-schema is expected and names that spell a path.*)
(***************************************************************************)
\* {"type":"object","definitions":{"c":..},"properties":{"b":..,"c":..},"items":..}
AllGroups ==
    JObject(K_object, EmptyString, [n \in {N_c} |-> Integer],
            [n \in {N_b, N_c} |-> Integer], Integer, << >>)

\* a node two of whose descendants get the same pointer
SamePointer ==
    JObject(K_object, EmptyString,
            [n \in {N_id, N_idPropertiesB} |->
                IF n = N_id THEN Object([m \in {N_b} |-> Integer], << >>)
                ELSE Leaf(K_string, EmptyString)],
            << >>, JAbsent, << >>)

ParseMenu ==
    {Leaf(K_string, EmptyString),
     AllGroups,
     Object([n \in {N_b} |-> InnerObject], << >>),
     Array(Array(Integer)),
     JObject(K_object, EmptyString, [n \in {N_c} |-> Integer],
             [n \in {N_b} |-> JNull], Integer, << >>),
     SamePointer}

ParseDocs ==
    UNION { { JObject(K_none, EmptyString, m, << >>, JAbsent, << >>)
              : m \in [keys -> ParseMenu] }
            : keys \in {k \in SUBSET SchemaNames : Cardinality(k) \in 1..MaxKeys} }

\* Parse(b) up to the call of s.parse(idx, "#"), with the traversal the
\* ranges over the maps will make
DoParseStart ==
    /\ parsed.ret = "none"
    /\ op = NoOp
    /\ \E b \in ParseDocs :
        LET u == Unmarshal(b)
        IN  /\ doc' = b
            /\ IF u.err
               THEN /\ parsed' = [ret |-> "return", hasIdx |-> FALSE, err |-> ErrJSON]
                    /\ op' = NoOp
               ELSE /\ parsed' = parsed
                    /\ \E r \in parse(u.s, Hash) :
                        op' = [name |-> "parse", ins |-> r.ins, panic |-> r.panic, at |-> 0]
    /\ idx' = << >>

\* (*idx)[pointer] = s, the next insertion of the traversal
DoInsert ==
    /\ op.name = "parse"
    /\ op.at < Len(op.ins)
    /\ idx' = [k \in DOMAIN idx \cup {op.ins[op.at + 1].key} |->
                  IF k = op.ins[op.at + 1].key THEN op.ins[op.at + 1].s ELSE idx[k]]
    /\ op' = [op EXCEPT !.at = op.at + 1]
    /\ UNCHANGED <<doc, parsed>>

\* the end of the traversal: Parse returns the Index, or the nil dereference
\* ends it
DoParseEnd ==
    /\ op.name = "parse"
    /\ op.at = Len(op.ins)
    /\ parsed' = IF op.panic
                 THEN [ret |-> "panic", hasIdx |-> FALSE, err |-> ErrNone]
                 ELSE [ret |-> "return", hasIdx |-> TRUE, err |-> ErrNone]
    /\ op' = NoOp
    /\ UNCHANGED <<doc, idx>>

ParseNext ==
    \/ DoParseStart
    \/ DoInsert
    \/ DoParseEnd

ParseSpec == Init /\ [][ParseNext]_vars

(***************************************************************************)
(* The sub-schemas a document declares, found by walking the JSON value:   *)
(* [path, ptr, v] for every JSON object below the root, with the pointer   *)
(* its path spells.                                                        *)
(***************************************************************************)
RECURSIVE DocNodesBelow(_, _, _)
DocNodesBelow(v, ptr, path) ==
    LET sub(c, p, pa) ==
            IF c.j = "object"
            THEN {[path |-> pa, ptr |-> p, v |-> c]} \cup DocNodesBelow(c, p, pa)
            ELSE {}
    IN  IF v.j # "object" THEN {}
        ELSE UNION {sub(v.definitions[n], ptr \o SlashDefinitions \o n,
                        Append(path, <<"definitions", n>>)) : n \in DOMAIN v.definitions}
             \cup UNION {sub(v.properties[n], ptr \o SlashProperties \o n,
                             Append(path, <<"properties", n>>)) : n \in DOMAIN v.properties}
             \cup sub(v.items, ptr \o SlashItems, Append(path, <<"items", EmptyString>>))

DocNodes(v) == DocNodesBelow(v, Hash, << >>)

\* the pointer two sub-schemas of a document can share
CollidingPointer == RefTo(N_idPropertiesB)

(***************************************************************************)
(* C1: for every document Parse accepts, every key k of the returned Index *)
(* maps to a node whose Pointer field equals k.                            *)
(***************************************************************************)
C1_PointerRoundTrip ==
    HaveIndex => \A k \in DOMAIN idx : idx[k].Pointer = k

\* an Index of several entries, one of them under the pointer that two
\* sub-schemas of the document share
C1_Witness ==
    /\ HaveIndex
    /\ Cardinality(DOMAIN idx) >= 3
    /\ CollidingPointer \in DOMAIN idx
    /\ Cardinality({n \in DocNodes(doc) : n.ptr = CollidingPointer}) = 2
    /\ idx[CollidingPointer].Pointer = CollidingPointer

(***************************************************************************)
(* C2, as claimed: every sub-schema of an accepted document, whatever its  *)
(* names, is stored under the pointer its path spells, the Index has       *)
(* exactly one entry per sub-schema and no entry "#".  Violated: parse     *)
(* does not escape "/" in a name, so the definition "id/properties/b" and  *)
(* the property b of the definition "id" get the same pointer and one of   *)
(* them is lost.                                                           *)
(***************************************************************************)
C2_EveryNodeIndexedOnce ==
    HaveIndex =>
        LET nodes == DocNodes(doc)
        IN  /\ \A n \in nodes :
                /\ n.ptr \in DOMAIN idx
                /\ idx[n.ptr].Ref = n.v.ref
                /\ n.v.ref = EmptyString => idx[n.ptr].Type = n.v.type
            /\ Cardinality(DOMAIN idx) = Cardinality(nodes)
            /\ Hash \notin DOMAIN idx

(***************************************************************************)
(* C3, as claimed: a second Parse of the same bytes returns an Index with  *)
(* the same pointers and, for each pointer, the same Name and Kind,        *)
(* whatever the order of the map traversal.  Violated: which of two        *)
(* sub-schemas with the same pointer stays in the Index depends on the     *)
(* order in which the range over the definitions map visits them.          *)
(***************************************************************************)
C3_ParseDeterministic ==
    op.name = "Parse" =>
        /\ op.res.ret = "return"
        /\ op.res.hasIdx
        /\ DOMAIN op.res.idx = DOMAIN idx
        /\ \A k \in DOMAIN idx :
            /\ op.res.idx[k].Name = idx[k].Name
            /\ op.res.idx[k].Type = idx[k].Type

(***************************************************************************)
(* C4, as claimed: Parse returns either an Index and no error or an error  *)
(* and no Index, returns the error for every input that is invalid JSON,   *)
(* has a wrongly typed field or has a null where a sub-schema is expected  *)
(* under definitions or properties, and never ends abnormally.  Violated:  *)
(* a null under definitions or properties decodes to a nil *Schema and     *)
(* parse dereferences it.                                                  *)
(***************************************************************************)
RECURSIVE HasNullSubSchema(_)
HasNullSubSchema(v) ==
    /\ v.j = "object"
    /\ \/ \E n \in DOMAIN v.definitions :
            v.definitions[n].j = "null" \/ HasNullSubSchema(v.definitions[n])
       \/ \E n \in DOMAIN v.properties :
            v.properties[n].j = "null" \/ HasNullSubSchema(v.properties[n])
       \/ HasNullSubSchema(v.items)

Malformed(v) == v.j = "invalid" \/ HasTypeError(v) \/ HasNullSubSchema(v)

C4_IndexOrError ==
    parsed.ret # "none" =>
        /\ parsed.ret = "return"
        /\ parsed.hasIdx <=> parsed.err = ErrNone
        /\ Malformed(doc) => parsed.err # ErrNone

(***************************************************************************)
(* C5: after Parse, every indexed node that declares a non-empty $ref has  *)
(* Kind "ref" whatever type it also declares, and every indexed node with  *)
(* an empty $ref keeps exactly the type it declared.                       *)
(***************************************************************************)
C5_RefOverridesType ==
    HaveIndex =>
        \A k \in DOMAIN idx :
            \E n \in DocNodes(doc) :
                /\ n.ptr = k
                /\ n.v.ref = idx[k].Ref
                /\ n.v.ref # EmptyString => idx[k].Type = K_ref
                /\ n.v.ref = EmptyString => idx[k].Type = n.v.type

\* an indexed node that declares both a type and a $ref, and one without $ref
C5_Witness ==
    /\ HaveIndex
    /\ \E k \in DOMAIN idx : \E n \in DocNodes(doc) :
        /\ n.ptr = k
        /\ n.v.ref # EmptyString
        /\ n.v.type = K_string
        /\ idx[k].Type = K_ref
    /\ \E k \in DOMAIN idx : idx[k].Ref = EmptyString /\ idx[k].Type = K_array

(***************************************************************************)
(* C6: resolve returns the very same node when the node's Kind is not      *)
(* reference; when it is, it returns the Index entry stored at the node's  *)
(* reference target after exactly one lookup, and it fails with an         *)
(* unresolved-reference error, returning no node, if and only if that      *)
(* target is not a key of the Index.                                       *)
(***************************************************************************)
C6_ResolveOneHop ==
    op.name = "resolveRefToSchema" =>
        /\ op.res.ret = "return"
        /\ op.arg.Type # K_ref => op.res = Returned(op.arg)
        /\ op.arg.Type = K_ref /\ op.arg.Ref \in DOMAIN idx =>
                op.res = Returned(idx[op.arg.Ref])
        /\ op.arg.Type = K_ref /\ op.arg.Ref \notin DOMAIN idx =>
                op.res = Failed(ErrNotInIndex(op.arg.Ref))
        /\ op.res.err # ErrNone <=> (op.arg.Type = K_ref /\ op.arg.Ref \notin DOMAIN idx)

\* a reference whose target is itself a reference to a third node: the
\* target is returned, not what the target refers to
C6_Witness ==
    /\ op.name = "resolveRefToSchema"
    /\ op.arg.Type = K_ref
    /\ op.arg.Ref \in DOMAIN idx
    /\ idx[op.arg.Ref].Type = K_ref
    /\ idx[op.arg.Ref].Ref \in DOMAIN idx
    /\ idx[idx[op.arg.Ref].Ref] # idx[op.arg.Ref]
    /\ op.res.s = idx[op.arg.Ref]

(***************************************************************************)
(* C7, as claimed: for every node n on which resolve succeeds, resolve     *)
(* applied to resolve(n) succeeds and returns resolve(n) unchanged.        *)
(* Violated by a reference to a reference: each call follows one hop.      *)
(***************************************************************************)
C7_ResolveIdempotent ==
    op.name = "resolveRefToSchema" /\ op.res.err = ErrNone =>
        resolveRefToSchema(op.res.s, idx) = op.res

(***************************************************************************)
(* C7, amended: for every node n on which resolve succeeds with a result   *)
(* that is not itself of Kind reference, resolve applied to resolve(n)     *)
(* succeeds and returns resolve(n) unchanged.                              *)
(***************************************************************************)
C7_ResolveIdempotentOnResolved ==
    op.name = "resolveRefToSchema" /\ op.res.err = ErrNone /\ op.res.s.Type # K_ref =>
        resolveRefToSchema(op.res.s, idx) = op.res

\* a reference resolved to a node that is no reference
C7_Witness ==
    /\ op.name = "resolveRefToSchema"
    /\ op.arg.Type = K_ref
    /\ op.res.err = ErrNone
    /\ op.res.s.Type = K_object
    /\ op.res.s # op.arg

(***************************************************************************)
(* The Kind table of synthesize, read as a definition of the value of a    *)
(* node.  HasValue(s, {}) tells whether the table gives s a value: every   *)
(* reference met resolves, every array met has items, and no node is met   *)
(* again below itself.                                                     *)
(***************************************************************************)
TableKinds ==
    {K_ref, K_object, K_array, K_string, K_integer, K_number, K_boolean, K_null}

RECURSIVE HasValue(_, _)
HasValue(s, above) ==
    /\ ~s.nil
    /\ s \notin above
    /\ s.Type \in TableKinds
    /\ s.Type = K_ref =>
        s.Ref \in DOMAIN idx /\ HasValue(idx[s.Ref], above \cup {s})
    /\ s.Type = K_object =>
        \A name \in DOMAIN s.Properties : HasValue(s.Properties[name], above \cup {s})
    /\ s.Type = K_array => HasValue(s.Items, above \cup {s})

RECURSIVE Synthesized(_)
Synthesized(s) ==
    IF s.Type = K_ref THEN Synthesized(idx[s.Ref])
    ELSE IF s.Type = K_object
        THEN [t |-> "map[string]interface{}",
              m |-> [name \in DOMAIN s.Properties |-> Synthesized(s.Properties[name])]]
    ELSE IF s.Type = K_array
        THEN [t |-> "[]interface{}", elems |-> <<Synthesized(s.Items)>>]
    ELSE IF s.Type = K_string THEN [t |-> "string", s |-> <<"s","t","r","i","n","g">>]
    ELSE IF s.Type = K_integer THEN [t |-> "int", n |-> 42]
    ELSE IF s.Type = K_number THEN [t |-> "float64", lit |-> "3.14"]
    ELSE IF s.Type = K_boolean THEN [t |-> "bool", b |-> TRUE]
    ELSE [t |-> "nil"]

(***************************************************************************)
(* C8: NewInstance returns the value the Kind table gives, recursively:    *)
(* string -> "string", integer -> 42, number -> 3.14, boolean -> true,     *)
(* null -> nil, array -> one element, the value of items, reference -> the *)
(* value of the resolved node, object -> exactly one entry per property,   *)
(* each the value of that property's node.                                 *)
(***************************************************************************)
C8_KindTable ==
    op.name = "NewInstance" /\ HasValue(op.arg, {}) =>
        /\ IsValue(op.res)
        /\ op.res.v = Synthesized(op.arg)
        /\ op.arg.Type = K_object => DOMAIN op.res.v.m = DOMAIN op.arg.Properties
        /\ op.arg.Type = K_array => Len(op.res.v.elems) = 1

\* an array of references to an object with an integer property: the value
\* is a one-element sequence holding a one-entry mapping holding 42
C8_Witness ==
    /\ op.name = "NewInstance"
    /\ op.arg.Type = K_array
    /\ ~op.arg.Items.nil
    /\ op.arg.Items.Type = K_ref
    /\ IsValue(op.res)
    /\ Len(op.res.v.elems) = 1
    /\ op.res.v.elems[1].t = "map[string]interface{}"
    /\ DOMAIN op.res.v.elems[1].m = {N_b}
    /\ op.res.v.elems[1].m[N_b] = [t |-> "int", n |-> 42]

(***************************************************************************)
(* C9, as claimed: whenever synthesis, type generation or validation       *)
(* generation reaches a reference whose target is not in the Index (a      *)
(* property of the object generated, the items of the array generated, or  *)
(* anywhere in the subtree synthesized), the operation returns an          *)
(* unresolved-reference error and no value or output, and does not crash.  *)
(* Violated: generateGoRef reads ref.Name of the nil entry the lookup of a *)
(* missing target gives, so generateGoType of the object panics.           *)
(***************************************************************************)
DanglingRef(s) == ~s.nil /\ s.Type = K_ref /\ s.Ref \notin DOMAIN idx

HasDanglingChild(s) ==
    \/ s.Type = K_object /\ \E name \in DOMAIN s.Properties : DanglingRef(s.Properties[name])
    \/ s.Type = K_array /\ DanglingRef(s.Items)

RECURSIVE ReachesDangling(_, _)
ReachesDangling(s, above) ==
    /\ ~s.nil
    /\ s \notin above
    /\ \/ DanglingRef(s)
       \/ /\ s.Type = K_ref
          /\ s.Ref \in DOMAIN idx
          /\ ReachesDangling(idx[s.Ref], above \cup {s})
       \/ /\ s.Type = K_object
          /\ \E name \in DOMAIN s.Properties :
                ReachesDangling(s.Properties[name], above \cup {s})
       \/ /\ s.Type = K_array
          /\ ReachesDangling(s.Items, above \cup {s})

IsUnresolved(err) == err.kind = "jsonschema: %v does not exist in index"

C9_UnresolvedReported ==
    /\ (op.name \in {"generateGoType", "generateGoTypeValidateFunc"}
            /\ HasDanglingChild(op.arg)) =>
        /\ op.res.ret = "return"
        /\ IsUnresolved(op.res.err)
        /\ op.res.out = NoSource
    /\ (op.name = "NewInstance" /\ ReachesDangling(op.arg, {})) =>
        /\ op.res.ret = "return"
        /\ IsUnresolved(op.res.err)
        /\ op.res.v = V_nil

(***************************************************************************)
(* C10, as claimed: for every node of an Index returned by Parse whose     *)
(* references resolve and whose required names exist, type generation and  *)
(* validation generation each produce a non-empty artifact when the Kind   *)
(* is object or array, and nothing at all (no artifact, no error) when it  *)
(* is a primitive or a reference.  Violated: for an array that declares no *)
(* items both generators dereference the nil Items and panic.              *)
(***************************************************************************)
RequiredExist(s) ==
    \A i \in DOMAIN s.Required :
        (s.Pointer \o SlashProperties \o s.Required[i]) \in DOMAIN idx

C10_ArtifactsByKind ==
    (/\ op.name \in {"generateGoType", "generateGoTypeValidateFunc"}
     /\ ~HasDanglingChild(op.arg)
     /\ RequiredExist(op.arg)) =>
        IF op.arg.Type \in {K_object, K_array}
        THEN /\ op.res.ret = "return"
             /\ op.res.err = ErrNone
             /\ ~op.res.out.empty
        ELSE op.res = Generated(NoSource)

(***************************************************************************)
(* C11.  The batch generators (types and validation functions) visit the   *)
(* Index nodes in ascending order of Name, and nodes of equal Name in      *)
(* ascending order of Pointer, so that what they emit for a given Index is *)
(* the same on every run.  Violated: byName.Less compares the Names only,  *)
(* so two nodes of equal Name are visited in the order the map yielded     *)
(* them.                                                                   *)
(***************************************************************************)
Before(a, b) ==
    \/ StringLess(a.Name, b.Name)
    \/ a.Name = b.Name /\ StringLess(a.Pointer, b.Pointer)

\* the keys in ascending Name, those of equal Name in ascending Pointer
RECURSIVE ByNameThenPointer(_, _)
ByNameThenPointer(index, keys) ==
    IF keys = {} THEN << >>
    ELSE LET first == CHOOSE k \in keys : \A o \in keys \ {k} : Before(index[k], index[o])
         IN  <<first>> \o ByNameThenPointer(index, keys \ {first})

C11_VisitByNameThenPointer ==
    /\ op.name = "generateGoTypes" =>
        op.res = Batch(goTypes(Written(<< >>), idx, ByNameThenPointer(idx, DOMAIN idx)))
    /\ op.name = "generateGoTypesValidateFuncs" =>
        op.res = Batch(goValidateFuncs(Written(<< >>), idx,
                                       ByNameThenPointer(idx, DOMAIN idx)))

(***************************************************************************)
(* C12.  The type shape generated for an object node lists its fields in   *)
(* ascending string order of the property names, whatever the order of the *)
(* derived Names, with at most one field per entry of Properties and no    *)
(* field that does not come from a property.                               *)
(***************************************************************************)
C12_FieldsInKeyOrder ==
    (/\ op.name = "generateGoType"
     /\ op.arg.Type = K_object
     /\ op.res.ret = "return"
     /\ op.res.err = ErrNone) =>
        /\ op.res.out.decl = "struct"
        /\ \E ks \in [DOMAIN op.res.out.fields -> DOMAIN op.arg.Properties] :
            /\ \A i, j \in DOMAIN ks : i < j => StringLess(ks[i], ks[j])
            /\ \A i \in DOMAIN ks :
                op.res.out.fields[i] = generateGoRef(op.arg.Properties[ks[i]], idx).field

\* an object with two fields whose identifiers are in descending order
C12_Witness ==
    /\ op.name = "generateGoType"
    /\ op.arg.Type = K_object
    /\ op.res.ret = "return"
    /\ op.res.err = ErrNone
    /\ Len(op.res.out.fields) = 2
    /\ StringLess(op.res.out.fields[2].name, op.res.out.fields[1].name)

(***************************************************************************)
(* C13.  A property contributes a field to its parent's type shape if and  *)
(* only if its resolved kind (its own kind, or the kind of its target      *)
(* after one reference hop) is one of boolean, object, array, number,      *)
(* integer, string; a property whose resolved kind is null contributes no  *)
(* field.  Violated: generateGoRef writes a field for every reference      *)
(* whose target exists, whatever the target's kind.                        *)
(***************************************************************************)
FieldKinds == {K_boolean, K_object, K_array, K_number, K_integer, K_string}

\* the kind of s, or of its target when s is a reference with a target
ResolvedKind(s) ==
    IF s.Type = K_ref /\ s.Ref \in DOMAIN idx THEN idx[s.Ref].Type ELSE s.Type

C13_FieldIffResolvedKind ==
    (/\ op.name = "generateGoRef"
     /\ op.res.ret = "return") =>
        (~op.res.field.empty <=> ResolvedKind(op.arg) \in FieldKinds)

C15_ArrayElementType ==
    (/\ op.name = "generateGoType"
     /\ op.arg.Type = K_array
     /\ ~op.arg.Items.nil
     /\ op.res.ret = "return"
     /\ op.res.err = ErrNone) =>
        /\ op.res.out.decl = "slice"
        /\ op.res.out.name = op.arg.Name
        /\ op.res.out.elem =
            IF op.arg.Items.Type = K_ref THEN idx[op.arg.Items.Ref].Name
            ELSE IF op.arg.Items.Type \in {K_object, K_array} THEN op.arg.Items.Name
            ELSE op.arg.Items.Type

(***************************************************************************)
(* C16.  If any object node in the Index has a name in Required for which  *)
(* <object pointer>/properties/<name> is not in the Index, Src and         *)
(* PackageSrc return an inconsistent-schema error and no output at all.    *)
(* Violated: generateGoTypes runs first, and panics on a node with a       *)
(* dangling reference property or on an array without items before any     *)
(* Required is looked at.                                                  *)
(***************************************************************************)
Inconsistent(s) ==
    /\ s.Type = K_object
    /\ \E i \in DOMAIN s.Required :
        (s.Pointer \o SlashProperties \o s.Required[i]) \notin DOMAIN idx

C16_InconsistentSchemaFails ==
    (/\ op.name \in {"Src", "PackageSrc"}
     /\ \E k \in DOMAIN idx : Inconsistent(idx[k])) =>
        /\ op.res.ret = "return"
        /\ IsUnresolved(op.res.err)
        /\ op.res.out = NoSource

(***************************************************************************)
(* The claims on the generated Validate(): op.src is the generated source, *)
(* op.arg the node of the type and op.inst the value it was called on.     *)
(***************************************************************************)
\* the positions in s.Required of the properties whose field is nil in t
Missing(s, t) ==
    {i \in DOMAIN s.Required : t.f[s.Properties[s.Required[i]].Name].v = "nil"}

Min(S) == CHOOSE i \in S : \A j \in S : i =< j

\* the Validate() calls of the method of s, in the order they are written
Calls(src, s) == SelectSeq(Method(src, s.Name).body, LAMBDA st : st.stmt = "call")

\* what the call st of the method of s comes to on t
Called(src, s, t, st) ==
    Validate(src, Elem(FieldOf(TypeDecl(src, s.Name), st.field)), t.f[st.field], 1)

\* the first of the results rs[1..] that is no success, or success
RECURSIVE FirstFailure(_)
FirstFailure(rs) ==
    IF rs = << >> THEN Passed
    ELSE IF Head(rs) # Passed THEN Head(rs)
    ELSE FirstFailure(Tail(rs))

(***************************************************************************)
(* C17.  Validating an instance of a generated object type in which a      *)
(* non-empty set M of its required fields is absent fails with exactly the *)
(* message "invalid <object ExternalName>: missing <p>", where p is the    *)
(* first name in the declaration order of Required that belongs to M; if M *)
(* is empty no missing-field error is reported for that object.            *)
(***************************************************************************)
C17_FirstMissingReported ==
    (/\ op.name = "Validate"
     /\ op.arg.Type = K_object) =>
        IF Missing(op.arg, op.inst) # {}
        THEN op.res = Invalid(op.arg.JSONName,
                              op.arg.Required[Min(Missing(op.arg, op.inst))], 0)
        ELSE ~(op.res.fail /\ op.res.at = 0)

\* both of two required fields are absent, and the one declared first is not
\* the first in string order
C17_Witness ==
    /\ op.name = "Validate"
    /\ op.arg.Type = K_object
    /\ Len(op.arg.Required) = 2
    /\ StringLess(op.arg.Required[2], op.arg.Required[1])
    /\ Missing(op.arg, op.inst) = {1, 2}
    /\ op.res.fail
    /\ op.res.missing = op.arg.Required[1]

(***************************************************************************)
(* C18.  In the validation rule set of every object node, all presence     *)
(* checks come before every nested-validation call: when an instance both  *)
(* misses a required field and holds a nested value that is itself         *)
(* invalid, the reported error is the parent's missing-field error, never  *)
(* the nested one.                                                         *)
(***************************************************************************)
\* some call of the method of s does not succeed on the value its field holds
HoldsInvalid(src, s, t) ==
    \E i \in DOMAIN Calls(src, s) :
        /\ t.f[Calls(src, s)[i].field].v # "nil"
        /\ Called(src, s, t, Calls(src, s)[i]) # Passed

C18_PresenceBeforeNested ==
    /\ (/\ op.name = "generateGoTypeValidateFunc"
        /\ op.arg.Type = K_object
        /\ op.res.ret = "return"
        /\ op.res.err = ErrNone) =>
            \A i, j \in DOMAIN op.res.out.body :
                (op.res.out.body[i].stmt = "check" /\ op.res.out.body[j].stmt = "call")
                    => i < j
    /\ (/\ op.name = "Validate"
        /\ op.arg.Type = K_object
        /\ Missing(op.arg, op.inst) # {}
        /\ HoldsInvalid(op.src, op.arg, op.inst)) =>
            /\ op.res.fail
            /\ op.res.at = 0
            /\ op.res.invalid = op.arg.JSONName

C18_Witness ==
    /\ op.name = "Validate"
    /\ op.arg.Type = K_object
    /\ Missing(op.arg, op.inst) # {}
    /\ HoldsInvalid(op.src, op.arg, op.inst)
    /\ op.res.fail
    /\ op.res.at = 0

(***************************************************************************)
(* C19.  The validation rule set of an object node contains one            *)
(* nested-validation call for each property whose kind after one reference *)
(* hop is object or array, and none for any other property; the calls run  *)
(* in ascending order of property name and the first failing call's error  *)
(* is returned without running the later ones.                             *)
(***************************************************************************)
NestedKinds == {K_object, K_array}

\* s, or its target when s is a reference with a target
Resolved(s) == IF s.Type = K_ref /\ s.Ref \in DOMAIN idx THEN idx[s.Ref] ELSE s

C19_NestedCalls ==
    /\ (/\ op.name = "generateGoTypeValidateFunc"
        /\ op.arg.Type = K_object
        /\ op.res.ret = "return"
        /\ op.res.err = ErrNone) =>
            LET calls == SelectSeq(op.res.out.body, LAMBDA st : st.stmt = "call")
                props == op.arg.Properties
            IN  \E ks \in [DOMAIN calls -> DOMAIN props] :
                    /\ \A i, j \in DOMAIN ks : i < j => StringLess(ks[i], ks[j])
                    /\ \A i \in DOMAIN ks : calls[i].field = Resolved(props[ks[i]]).Name
                    /\ \A k \in DOMAIN props :
                        ResolvedKind(props[k]) \in NestedKinds
                            <=> \E i \in DOMAIN ks : ks[i] = k
    /\ (/\ op.name = "Validate"
        /\ op.arg.Type = K_object
        /\ Missing(op.arg, op.inst) = {}
        /\ op.res.ret = "return") =>
            op.res = FirstFailure([i \in DOMAIN Calls(op.src, op.arg) |->
                                   Called(op.src, op.arg, op.inst,
                                          Calls(op.src, op.arg)[i])])

\* two calls fail, each with its own error, and the error is the first one's
C19_Witness ==
    /\ op.name = "Validate"
    /\ op.arg.Type = K_object
    /\ Missing(op.arg, op.inst) = {}
    /\ Len(Calls(op.src, op.arg)) = 2
    /\ LET first == Called(op.src, op.arg, op.inst, Calls(op.src, op.arg)[1])
           second == Called(op.src, op.arg, op.inst, Calls(op.src, op.arg)[2])
       IN  /\ first.fail
           /\ second.fail
           /\ first # second
           /\ op.res = first

(***************************************************************************)
(* C20.  For an array node, validation generation emits an element-wise    *)
(* loop that validates each element in order and returns the first failure *)
(* when the resolved kind of Items is object or array; when Items resolves *)
(* to a primitive, the array node gets no validation rule.  Violated as    *)
(* stated: an array of primitives gets a Validate() that returns nil.      *)
(***************************************************************************)
\* what the element loop comes to on the slice t of the type of s
Looped(src, s, t) ==
    FirstFailure([i \in DOMAIN t.e |->
                  Validate(src, TypeDecl(src, s.Name).elem, t.e[i], 1)])

C20_LoopOrNoRule ==
    /\ (/\ op.name = "generateGoTypeValidateFunc"
        /\ op.arg.Type = K_array
        /\ op.res.ret = "return"
        /\ op.res.err = ErrNone) =>
            IF ResolvedKind(op.arg.Items) \in NestedKinds
            THEN op.res.out.body = <<ElementLoop, ReturnNil>>
            ELSE op.res.out.empty
    /\ (/\ op.name = "Validate"
        /\ op.arg.Type = K_array
        /\ ResolvedKind(op.arg.Items) \in NestedKinds) =>
            op.res = Looped(op.src, op.arg, op.inst)

(***************************************************************************)
(* C20, amended.  For an array node, validation generation emits an        *)
(* element-wise loop that validates each element in order and returns the  *)
(* first failure when the resolved kind of Items is object or array; when  *)
(* Items resolves to a primitive, the array node gets a rule without a     *)
(* loop, which succeeds on every value.                                    *)
(***************************************************************************)
C20_LoopOrEmptyRule ==
    /\ (/\ op.name = "generateGoTypeValidateFunc"
        /\ op.arg.Type = K_array
        /\ op.res.ret = "return"
        /\ op.res.err = ErrNone) =>
            /\ op.res.out.decl = "func"
            /\ op.res.out.recv = op.arg.Name
            /\ op.res.out.body =
                IF ResolvedKind(op.arg.Items) \in NestedKinds
                THEN <<ElementLoop, ReturnNil>>
                ELSE <<ReturnNil>>
    /\ (/\ op.name = "Validate"
        /\ op.arg.Type = K_array) =>
            op.res = IF ResolvedKind(op.arg.Items) \in NestedKinds
                     THEN Looped(op.src, op.arg, op.inst)
                     ELSE Passed

\* a slice of two elements that fail differently; the error is the first one's
C20_Witness ==
    /\ op.name = "Validate"
    /\ op.arg.Type = K_array
    /\ ResolvedKind(op.arg.Items) \in NestedKinds
    /\ Len(op.inst.e) = 2
    /\ LET first == Validate(op.src, TypeDecl(op.src, op.arg.Name).elem, op.inst.e[1], 1)
           second == Validate(op.src, TypeDecl(op.src, op.arg.Name).elem, op.inst.e[2], 1)
       IN  /\ first.fail
           /\ second.fail
           /\ first # second
           /\ op.res = first

\* an array of primitives and the rule generated for it
C20_WitnessPrimitive ==
    /\ op.name = "generateGoTypeValidateFunc"
    /\ op.arg.Type = K_array
    /\ op.res.ret = "return"
    /\ op.res.err = ErrNone
    /\ ResolvedKind(op.arg.Items) \notin NestedKinds

(***************************************************************************)
(* C21, as claimed.  The Name of every indexed node is obtained from the   *)
(* last "/"-separated segment of its Pointer by removing every "{", "}",   *)
(* "-" and "_", then mapping the result to ID, URL or API when it equals   *)
(* id, url or api compared case-insensitively, and otherwise to the result *)
(* with its first letter upper-cased and all other letters lower-cased.    *)
(* Violated as stated: the abbreviations are matched in lower case only,   *)
(* and no letter is ever lower-cased.                                      *)
(***************************************************************************)
\* the segment without the four characters
Stripped(seg) == SelectSeq(seg, LAMBDA c : c \notin {"{", "}", "-", "_"})

LowerCased(s) == [i \in 1..Len(s) |-> ToLower(s[i])]

Abbreviations == {S_id, S_url, S_api}
Abbreviated(s) == [i \in 1..Len(s) |-> ToUpper(s[i])]

C21_NameAnyCase ==
    HaveIndex =>
        \A k \in DOMAIN idx :
            LET c == Stripped(LastSegment(idx[k].Pointer))
            IN  idx[k].Name =
                    IF LowerCased(c) \in Abbreviations THEN Abbreviated(c)
                    ELSE [i \in 1..Len(c) |->
                            IF i = 1 THEN ToUpper(c[i]) ELSE ToLower(c[i])]

(***************************************************************************)
(* C21, amended.  The Name of every indexed node is obtained from the last *)
(* "/"-separated segment of its Pointer by removing every "{", "}", "-"    *)
(* and "_", then mapping the result to ID, URL or API when it is exactly   *)
(* id, url or api, and otherwise to the result with the first letter of    *)
(* each of its words upper-cased and every other character unchanged (a    *)
(* word begins at the start and after every character that is no letter,   *)
(* no digit and no underscore).                                            *)
(***************************************************************************)
WordStart(c, i) ==
    i = 1 \/ ~(IsLower(c[i - 1]) \/ IsUpper(c[i - 1]) \/ c[i - 1] \in Digits)

C21_NameExactAbbreviation ==
    HaveIndex =>
        \A k \in DOMAIN idx :
            LET c == Stripped(LastSegment(idx[k].Pointer))
            IN  idx[k].Name =
                    IF c \in Abbreviations THEN Abbreviated(c)
                    ELSE [i \in 1..Len(c) |->
                            IF WordStart(c, i) THEN ToUpper(c[i]) ELSE c[i]]

\* a name with a stripped character that spells an abbreviation in another
\* case: it is kept as it is but for its first letter
C21_Witness ==
    /\ HaveIndex
    /\ \E k \in DOMAIN idx :
        /\ LastSegment(idx[k].Pointer) = <<"_", "I", "d">>
        /\ idx[k].Name = <<"I", "d">>

Below(s) ==
    {s.Properties[name] : name \in DOMAIN s.Properties}
    \cup (IF s.Items.nil THEN {} ELSE {s.Items})
    \cup (IF s.Ref \in DOMAIN idx THEN {idx[s.Ref]} ELSE {})

\* the nodes reachable from the nodes of frontier, seen being reached already
RECURSIVE ReachableFrom(_, _)
ReachableFrom(frontier, seen) ==
    IF frontier \subseteq seen THEN seen
    ELSE ReachableFrom(UNION {Below(s) : s \in frontier \ seen}, seen \cup frontier)

\* some node reachable from s reaches itself again
SelfReferential(s) ==
    \E n \in ReachableFrom({s}, {}) : n \in ReachableFrom(Below(n), {})

(***************************************************************************)
(* C23, as claimed.  NewInstance of a node returns (a value or an error)   *)
(* if and only if no node reachable from it through properties, items and  *)
(* reference hops reaches itself again; on a self-referential schema the   *)
(* recursion does not end and exhausts the stack.  Violated: on an array   *)
(* that declares no items, which is not self-referential, NewInstance does *)
(* not return but dereferences the nil Items.                              *)
(***************************************************************************)
C23_ReturnsIffAcyclic ==
    op.name = "NewInstance" =>
        /\ ~SelfReferential(op.arg) <=> op.res.ret = "return"
        /\ SelfReferential(op.arg) => op.res.ret = "overflow"

(***************************************************************************)
(* C24, as claimed.  For every property of an object node that gets a      *)
(* nested-validation call, the call is made on the field that the object's *)
(* type shape declares for that property: the identifier in the call is    *)
(* the identifier of the field, also when the property is a reference      *)
(* whose target has another name.  Violated: the call is written with the  *)
(* Name of the resolved node, the field with the Name of the property.     *)
(***************************************************************************)
\* the names of the properties of s that get a call, in the order the calls
\* are written
WithCall(s) ==
    SelectSeq(sortedMapKeys(s.Properties),
              LAMBDA k : ResolvedKind(s.Properties[k]) \in NestedKinds)

C24_CallOnDeclaredField ==
    (/\ op.name = "generateGoTypeValidateFunc"
     /\ op.arg.Type = K_object
     /\ op.res.ret = "return"
     /\ op.res.err = ErrNone) =>
        LET calls == SelectSeq(op.res.out.body, LAMBDA st : st.stmt = "call")
        IN  /\ Len(calls) = Len(WithCall(op.arg))
            /\ \A i \in DOMAIN calls :
                LET declared == generateGoRef(op.arg.Properties[WithCall(op.arg)[i]], idx)
                IN  /\ declared.ret = "return"
                    /\ ~declared.field.empty
                    /\ calls[i].field = declared.field.name

(***************************************************************************)
(* C25, as claimed.  Validating an instance of a generated object type in  *)
(* which every required field is present and some non-required property   *)
(* of resolved kind object or array is absent completes with a result,     *)
(* success or a validation error: the nested call never dereferences an    *)
(* absent field.  Violated: the call is made on the nil field without a    *)
(* test, and the method of the nested type reads its receiver.             *)
(***************************************************************************)
Required(s) == {s.Required[i] : i \in DOMAIN s.Required}

\* the non-required properties of s of a nested kind whose field is nil in t
AbsentNested(s, t) ==
    {k \in DOMAIN s.Properties \ Required(s) :
        /\ ResolvedKind(s.Properties[k]) \in NestedKinds
        /\ t.f[s.Properties[k].Name].v = "nil"}

C25_AbsentOptionalCompletes ==
    (/\ op.name = "Validate"
     /\ op.arg.Type = K_object
     /\ Missing(op.arg, op.inst) = {}
     /\ AbsentNested(op.arg, op.inst) # {}) =>
        op.res.ret = "return"

(***************************************************************************)
(* C26, as claimed.  Every type name that a generated type shape refers to *)
(* (the type of a field whose property is of Kind object, array or         *)
(* reference, and the element type of an array whose Items is of Kind      *)
(* object, array or reference) is the name of a type shape the same pass   *)
(* emits, i.e. the Name of an Index node of Kind object or array.          *)
(* Violated: a reference to a primitive node gives a field of the type     *)
(* named after that node, for which no type is emitted, and object or      *)
(* array Items give the element type "object" or "array".                  *)
(***************************************************************************)
\* the names of the type shapes a pass over the Index emits
EmittedNames == {idx[k].Name : k \in {p \in DOMAIN idx : idx[p].Type \in NestedKinds}}

ReferringKinds == {K_object, K_array, K_ref}

C26_ReferredTypesEmitted ==
    (/\ op.name = "generateGoType"
     /\ op.res.ret = "return"
     /\ op.res.err = ErrNone) =>
        /\ op.arg.Type = K_object =>
            \A i \in DOMAIN op.res.out.fields :
                (\E k \in DOMAIN op.arg.Properties :
                    /\ op.arg.Properties[k].Type \in ReferringKinds
                    /\ op.arg.Properties[k].Name = op.res.out.fields[i].name)
                => Tail(op.res.out.fields[i].type) \in EmittedNames
        /\ (op.arg.Type = K_array /\ op.arg.Items.Type \in ReferringKinds) =>
            op.res.out.elem \in EmittedNames

(***************************************************************************)
(* C27, as claimed.  In the output of one generation pass no two distinct  *)
(* Index nodes of Kind object or array produce type shapes (or validation  *)
(* rule sets) carrying the same type name, and no object type shape has    *)
(* two fields with the same identifier.  Violated: the Name is derived     *)
(* from the last segment of the pointer alone, and nothing keeps the nodes *)
(* "b" and "-b", both named B, apart.                                      *)
(***************************************************************************)
C27_NamesKeptApart ==
    /\ (/\ op.name = "generateGoTypes"
        /\ op.res.ret = "return"
        /\ op.res.err = ErrNone
        /\ ~op.res.out.empty) =>
            LET decls == op.res.out.decls
            IN  /\ \A i, j \in DOMAIN decls : decls[i].name = decls[j].name => i = j
                /\ \A i \in DOMAIN decls :
                    decls[i].decl = "struct" =>
                        \A j, k \in DOMAIN decls[i].fields :
                            decls[i].fields[j].name = decls[i].fields[k].name => j = k
    /\ (/\ op.name = "generateGoTypesValidateFuncs"
        /\ op.res.ret = "return"
        /\ op.res.err = ErrNone
        /\ ~op.res.out.empty) =>
            LET decls == op.res.out.decls
            IN  \A i, j \in DOMAIN decls : decls[i].recv = decls[j].recv => i = j

(***************************************************************************)
(* C28, as claimed.  For an Index node of Kind array that declares no      *)
(* items, NewInstance, generateGoType and generateGoTypeValidateFunc each  *)
(* return a value or an error; none of them terminates abnormally.         *)
(* Violated: each of the three dereferences the nil Items.                 *)
(***************************************************************************)
\* a sub-schema of doc at pointer ptr declares no items
DeclaresNoItems(ptr) == \E n \in DocNodes(doc) : n.ptr = ptr /\ n.v.items = JAbsent

C28_ArrayWithoutItemsReturns ==
    (/\ op.name \in {"NewInstance", "generateGoType", "generateGoTypeValidateFunc"}
     /\ op.arg.Type = K_array
     /\ op.arg.Items.nil
     /\ DeclaresNoItems(op.arg.Pointer)) =>
        op.res.ret = "return"

(***************************************************************************)
(* C29, as claimed.  The outward-facing name of every field of a generated *)
(* object type shape is the literal name of the property it was generated  *)
(* from, the raw last segment of that property's own Pointer, also when    *)
(* the property is a reference.  Violated: the field of a reference        *)
(* carries the JSONName of the target of the reference.                    *)
(***************************************************************************)
C29_FieldTagIsPropertyName ==
    (/\ op.name = "generateGoType"
     /\ op.arg.Type = K_object
     /\ op.res.ret = "return"
     /\ op.res.err = ErrNone) =>
        \E ks \in [DOMAIN op.res.out.fields -> DOMAIN op.arg.Properties] :
            /\ \A i, j \in DOMAIN ks : i < j => StringLess(ks[i], ks[j])
            /\ \A i \in DOMAIN ks :
                /\ op.res.out.fields[i].name = op.arg.Properties[ks[i]].Name
                /\ op.res.out.fields[i].json = ks[i]
                /\ ks[i] = LastSegment(op.arg.Properties[ks[i]].Pointer)

(***************************************************************************)
(* C30.  During Parse, each node visits its children in the fixed group    *)
(* order Definitions, then Properties, then Items, and is inserted into    *)
(* the Index only after all of its descendants: at the moment any node is  *)
(* inserted, every node reachable from it through definitions, properties  *)
(* or items is already in the Index.                                       *)
(***************************************************************************)
\* the nodes below s through definitions, properties and items
RECURSIVE Descendants(_)
Descendants(s) ==
    LET children ==
            {s.Definitions[n] : n \in DOMAIN s.Definitions}
            \cup {s.Properties[n] : n \in DOMAIN s.Properties}
            \cup {s.Items}
    IN  UNION {IF c.nil THEN {} ELSE {c} \cup Descendants(c) : c \in children}

\* the pointers of the children of the sub-schema v at ptr, group by group
DefinitionsOf(v, ptr) == {ptr \o SlashDefinitions \o n : n \in DOMAIN v.definitions}
PropertiesOf(v, ptr) == {ptr \o SlashProperties \o n : n \in DOMAIN v.properties}
ItemsOf(v, ptr) == IF v.items.j = "object" THEN {ptr \o SlashItems} ELSE {}

\* a group of children is visited once one of them is in the Index, and
\* done once all of them are
Visited(group) == group \cap DOMAIN idx # {}
Done(group) == group \subseteq DOMAIN idx

GroupOrder(v, ptr) ==
    /\ Visited(PropertiesOf(v, ptr)) => Done(DefinitionsOf(v, ptr))
    /\ Visited(ItemsOf(v, ptr)) =>
        Done(DefinitionsOf(v, ptr)) /\ Done(PropertiesOf(v, ptr))
    /\ ptr \in DOMAIN idx =>
        /\ Done(DefinitionsOf(v, ptr))
        /\ Done(PropertiesOf(v, ptr))
        /\ Done(ItemsOf(v, ptr))

====
